---------------------------- MODULE Spec2Model ----------------------------
(***************************************************************************)
(* The Lake Name Resolver of TroutTracker (src/backend/lake-matcher):      *)
(* normalizer, gazetteer loader, matcher, manual overrides, result cache   *)
(* and the match_lake_name facade.                                         *)
(*                                                                         *)
(* Python strings are sequences of one-character strings, so that the      *)
(* character-level code (replace, regular expressions, split, Levenshtein) *)
(* is computed as the code computes it.  Python values whose type matters  *)
(* are records with a "type" field.                                        *)
(***************************************************************************)
EXTENDS Integers, Sequences, FiniteSets, TLC

-----------------------------------------------------------------------------
(* Python values                                                           *)

None == [type |-> "NoneType"]
Str(s) == [type |-> "str", s |-> s]
\* int and float: magnitude hi * 10^8 + lo (+ tenths / 10 for a float)
Number(t, neg, hi, lo, tenths) == [type |-> t, neg |-> neg, hi |-> hi, lo |-> lo, tenths |-> tenths]
PyInt(n) == Number("int", n < 0, 0, IF n < 0 THEN -n ELSE n, 0)
PyFloat(neg, whole, tenths) == Number("float", neg, 0, whole, tenths)

isinstance_str(v) == v.type = "str"
IsNumber(v) == v.type \in {"int", "float"}
\* Python truthiness: None, "", 0 and 0.0 are falsy
Truthy(v) ==
  CASE v.type = "NoneType" -> FALSE
    [] v.type = "str" -> v.s # <<>>
    [] IsNumber(v) -> ~(v.hi = 0 /\ v.lo = 0 /\ v.tenths = 0)
    [] OTHER -> TRUE
\* Python ==  between two numbers (7 == 7.0), None, or strings
PyEq(a, b) ==
  IF IsNumber(a) /\ IsNumber(b)
  THEN /\ a.hi = b.hi /\ a.lo = b.lo /\ a.tenths = b.tenths
       /\ (a.neg = b.neg \/ (a.hi = 0 /\ a.lo = 0 /\ a.tenths = 0))
  ELSE a = b

-----------------------------------------------------------------------------
(* Characters and the str methods the code uses                            *)

ascii_uppercase == <<"A","B","C","D","E","F","G","H","I","J","K","L","M",
                     "N","O","P","Q","R","S","T","U","V","W","X","Y","Z">>
ascii_lowercase == <<"a","b","c","d","e","f","g","h","i","j","k","l","m",
                     "n","o","p","q","r","s","t","u","v","w","x","y","z">>
digits == <<"0","1","2","3","4","5","6","7","8","9">>
Range(f) == {f[i] : i \in DOMAIN f}
UpperSet == Range(ascii_uppercase)
LowerSet == Range(ascii_lowercase)
DigitSet == Range(digits)
Whitespace == {" ", "\t", "\n", "\r"}
IndexIn(c, alphabet) == CHOOSE i \in DOMAIN alphabet : alphabet[i] = c

lower_char(c) == IF c \in UpperSet THEN ascii_lowercase[IndexIn(c, ascii_uppercase)] ELSE c
upper_char(c) == IF c \in LowerSet THEN ascii_uppercase[IndexIn(c, ascii_lowercase)] ELSE c
lower(s) == [i \in 1..Len(s) |-> lower_char(s[i])]
upper(s) == [i \in 1..Len(s) |-> upper_char(s[i])]

\* sub in s
contains(sub, s) == \E i \in 1..(Len(s) - Len(sub) + 1) : SubSeq(s, i, i + Len(sub) - 1) = sub

\* the least of a set of positions that is not empty
least(positions) == CHOOSE i \in positions : \A j \in positions : i <= j

\* s.replace(old, new): leftmost non-overlapping occurrences (old is not empty), taken one
\* occurrence at a time
occurrences(s, old) == {i \in 1..(Len(s) - Len(old) + 1) : SubSeq(s, i, i + Len(old) - 1) = old}
RECURSIVE replace(_, _, _)
replace_at(s, old, new, i) ==
  SubSeq(s, 1, i - 1) \o new \o replace(SubSeq(s, i + Len(old), Len(s)), old, new)
replace(s, old, new) ==
  IF occurrences(s, old) = {} THEN s ELSE replace_at(s, old, new, least(occurrences(s, old)))

\* re.sub(r"[^a-z\s]", " ", s)
sub_not_lower_or_space(s) ==
  [i \in 1..Len(s) |-> IF s[i] \in LowerSet \/ s[i] \in Whitespace THEN s[i] ELSE " "]
\* re.sub(r"[()]", " ", s)
sub_parens(s) == [i \in 1..Len(s) |-> IF s[i] \in {"(", ")"} THEN " " ELSE s[i]]
\* re.sub(r"[^0-9a-zA-Z\s]", " ", s)
sub_not_alnum_or_space(s) ==
  [i \in 1..Len(s) |-> IF s[i] \in LowerSet \/ s[i] \in UpperSet \/ s[i] \in DigitSet \/ s[i] \in Whitespace
                       THEN s[i] ELSE " "]
\* the index of the first TRUE of a sequence of booleans, 0 when there is none
first_true(flags) ==
  IF \E i \in DOMAIN flags : flags[i]
  THEN CHOOSE i \in DOMAIN flags : flags[i] /\ \A j \in 1..(i - 1) : ~flags[j]
  ELSE 0

\* the last position of the run of whitespace (of another character, when inside = FALSE)
\* that position i is in
run_end(s, i, inside) ==
  least({j \in i..Len(s) : j = Len(s) \/ (s[j + 1] \in Whitespace) # inside})

\* re.sub(r"\s+", " ", s): every run of whitespace becomes one space, taken one run at a time
RECURSIVE collapse_whitespace(_)
collapse_run(s, i) ==
  SubSeq(s, 1, i - 1) \o <<" ">> \o collapse_whitespace(SubSeq(s, run_end(s, i, TRUE) + 1, Len(s)))
collapse_whitespace(s) ==
  IF \A i \in DOMAIN s : s[i] \notin Whitespace THEN s
  ELSE collapse_run(s, least({i \in DOMAIN s : s[i] \in Whitespace}))

RECURSIVE lstrip(_)
lstrip(s) == IF s # <<>> /\ s[1] \in Whitespace THEN lstrip(Tail(s)) ELSE s
RECURSIVE rstrip(_)
rstrip(s) == IF s # <<>> /\ s[Len(s)] \in Whitespace THEN rstrip(SubSeq(s, 1, Len(s) - 1)) ELSE s
strip(s) == rstrip(lstrip(s))

\* s.split(): the maximal runs of non-whitespace characters, taken one word at a time
RECURSIVE split_from(_, _)
split_word(s, words, i) ==
  split_from(SubSeq(s, run_end(s, i, FALSE) + 1, Len(s)),
             Append(words, SubSeq(s, i, run_end(s, i, FALSE))))
split_from(s, words) ==
  IF \A i \in DOMAIN s : s[i] \in Whitespace THEN words
  ELSE split_word(s, words, least({i \in DOMAIN s : s[i] \notin Whitespace}))
split(s) == split_from(s, <<>>)

\* sep.join(words)
RECURSIVE join(_, _)
join(sep, words) ==
  IF words = <<>> THEN <<>>
  ELSE IF Len(words) = 1 THEN words[1]
       ELSE words[1] \o sep \o join(sep, Tail(words))

-----------------------------------------------------------------------------
(* normalizer.py                                                           *)

TOKEN_EXPANSIONS ==
  << <<<<"l","k">>, <<<<"l","a","k","e">>>>>>,
     <<<<"l","k","s">>, <<<<"l","a","k","e","s">>>>>>,
     <<<<"p","d">>, <<<<"p","o","n","d">>>>>>,
     <<<<"p","n","d">>, <<<<"p","o","n","d">>>>>>,
     <<<<"p","r","k">>, <<<<"p","a","r","k">>>>>>,
     <<<<"p","k">>, <<<<"p","a","r","k">>>>>>,
     <<<<"r","e","s">>, <<<<"r","e","s","e","r","v","o","i","r">>>>>>,
     <<<<"c","o">>, <<<<"c","o","u","n","t","y">>>>>>,
     <<<<"c","n","t","y">>, <<<<"c","o","u","n","t","y">>>>>>,
     <<<<"s","t">>, <<<<"s","a","i","n","t">>>>>>,
     <<<<"m","t">>, <<<<"m","o","u","n","t">>>>>>,
     <<<<"m","t","n">>, <<<<"m","o","u","n","t","a","i","n">>>>>>,
     <<<<"c","t","r">>, <<<<"c","e","n","t","e","r">>>>>>,
     <<<<"c","t","r","s">>, <<<<"c","e","n","t","e","r","s">>>>>>,
     <<<<"n","o">>, <<<<"n","u","m","b","e","r">>>>>>,
     <<<<"n">>, <<<<"n","o","r","t","h">>>>>>,
     <<<<"s">>, <<<<"s","o","u","t","h">>>>>>,
     <<<<"e">>, <<<<"e","a","s","t">>>>>>,
     <<<<"w">>, <<<<"w","e","s","t">>>>>>,
     <<<<"n","e">>, <<<<"n","o","r","t","h","e","a","s","t">>>>>>,
     <<<<"n","w">>, <<<<"n","o","r","t","h","w","e","s","t">>>>>>,
     <<<<"s","e">>, <<<<"s","o","u","t","h","e","a","s","t">>>>>>,
     <<<<"s","w">>, <<<<"s","o","u","t","h","w","e","s","t">>>>>> >>

COUNTY_ABBREVIATIONS ==
  << <<<<"A","D","A","M">>, <<"a","d","a","m","s">>>>,
     <<<<"A","S","O","T">>, <<"a","s","o","t","i","n">>>>,
     <<<<"B","E","N","T">>, <<"b","e","n","t","o","n">>>>,
     <<<<"C","H","E","L">>, <<"c","h","e","l","a","n">>>>,
     <<<<"C","L","A","L">>, <<"c","l","a","l","l","a","m">>>>,
     <<<<"C","L","A","R">>, <<"c","l","a","r","k">>>>,
     <<<<"C","O","W","L">>, <<"c","o","w","l","i","t","z">>>>,
     <<<<"D","O","U","G">>, <<"d","o","u","g","l","a","s">>>>,
     <<<<"F","E","R","R">>, <<"f","e","r","r","y">>>>,
     <<<<"F","R","A","N">>, <<"f","r","a","n","k","l","i","n">>>>,
     <<<<"G","A","R","F">>, <<"g","a","r","f","i","e","l","d">>>>,
     <<<<"G","R","A","N">>, <<"g","r","a","n","t">>>>,
     <<<<"G","R","A","Y">>, <<"g","r","a","y","s"," ","h","a","r","b","o","r">>>>,
     <<<<"I","S","L","A">>, <<"i","s","l","a","n","d">>>>,
     <<<<"J","E","F","F">>, <<"j","e","f","f","e","r","s","o","n">>>>,
     <<<<"K","I","N","G">>, <<"k","i","n","g">>>>,
     <<<<"K","I","T","S">>, <<"k","i","t","s","a","p">>>>,
     <<<<"K","I","T","T">>, <<"k","i","t","t","i","t","a","s">>>>,
     <<<<"K","L","I","C">>, <<"k","l","i","c","k","i","t","a","t">>>>,
     <<<<"L","E","W","I">>, <<"l","e","w","i","s">>>>,
     <<<<"L","I","N","C">>, <<"l","i","n","c","o","l","n">>>>,
     <<<<"M","A","S","O">>, <<"m","a","s","o","n">>>>,
     <<<<"O","K","A","N">>, <<"o","k","a","n","o","g","a","n">>>>,
     <<<<"P","A","C","I">>, <<"p","a","c","i","f","i","c">>>>,
     <<<<"P","E","N","D">>, <<"p","e","n","d"," ","o","r","e","i","l","l","e">>>>,
     <<<<"P","I","E","R">>, <<"p","i","e","r","c","e">>>>,
     <<<<"S","A","N","J">>, <<"s","a","n"," ","j","u","a","n">>>>,
     <<<<"S","K","A","G">>, <<"s","k","a","g","i","t">>>>,
     <<<<"S","K","A","M">>, <<"s","k","a","m","a","n","i","a">>>>,
     <<<<"S","N","O","H">>, <<"s","n","o","h","o","m","i","s","h">>>>,
     <<<<"S","P","O","K">>, <<"s","p","o","k","a","n","e">>>>,
     <<<<"S","T","E","V">>, <<"s","t","e","v","e","n","s">>>>,
     <<<<"T","H","U","R">>, <<"t","h","u","r","s","t","o","n">>>>,
     <<<<"W","A","H","K">>, <<"w","a","h","k","i","a","k","u","m">>>>,
     <<<<"W","A","L","L">>, <<"w","a","l","l","a"," ","w","a","l","l","a">>>>,
     <<<<"W","H","A","T">>, <<"w","h","a","t","c","o","m">>>>,
     <<<<"W","H","I","T">>, <<"w","h","i","t","m","a","n">>>>,
     <<<<"Y","A","K","I">>, <<"y","a","k","i","m","a">>>> >>

table_has(table, key) == \E i \in DOMAIN table : table[i][1] = key
\* table[key]; insertion order decides nothing here, keys are unique
table_get(table, key) == table[CHOOSE i \in DOMAIN table : table[i][1] = key][2]

county_or_none(cleaned) == IF cleaned # <<>> THEN Str(cleaned) ELSE None
_normalize_county_input(value) ==
  IF ~Truthy(value) THEN None
  ELSE county_or_none(strip(collapse_whitespace(sub_not_lower_or_space(
         replace(replace(lower(value.s), <<"c","o","u","n","t","y">>, <<" ">>),
                 <<"c","n","t","y">>, <<" ">>)))))

\* r"\(([A-Z]{3,5})\)" matches at position i with a code of n letters
code_matches(uppercase, i, n) ==
  /\ i + n + 1 <= Len(uppercase)
  /\ uppercase[i] = "("
  /\ \A k \in 1..n : uppercase[i + k] \in UpperSet
  /\ uppercase[i + n + 1] = ")"
\* the positions from i on where it matches
open_codes(uppercase, i) ==
  {k \in i..Len(uppercase) : \E n \in 3..5 : code_matches(uppercase, k, n)}
\* re.findall(r"\(([A-Z]{3,5})\)", uppercase), scanning from position i, one match at a time
RECURSIVE findall_codes(_, _)
code_and_rest(uppercase, k, n) ==
  <<SubSeq(uppercase, k + 1, k + n)>> \o findall_codes(uppercase, k + n + 2)
findall_codes(uppercase, i) ==
  IF open_codes(uppercase, i) = {} THEN <<>>
  ELSE code_and_rest(uppercase, least(open_codes(uppercase, i)),
                     CHOOSE n \in 3..5 : code_matches(uppercase, least(open_codes(uppercase, i)), n))

\* _detect_county_hint: the first parenthesised code that is a county code (0: none)
paren_hit(matches) ==
  first_true([i \in DOMAIN matches |-> table_has(COUNTY_ABBREVIATIONS, matches[i])])
\* the first county whose code is followed by CO or COUNTY (0: none)
code_hit(uppercase) ==
  first_true([i \in DOMAIN COUNTY_ABBREVIATIONS |->
                \/ contains(COUNTY_ABBREVIATIONS[i][1] \o <<" ","C","O">>, uppercase)
                \/ contains(COUNTY_ABBREVIATIONS[i][1] \o <<" ","C","O","U","N","T","Y">>, uppercase)])
\* the first county whose name occurs (0: none)
name_hit(uppercase) ==
  first_true([i \in DOMAIN COUNTY_ABBREVIATIONS |->
                contains(upper(COUNTY_ABBREVIATIONS[i][2]), uppercase)])
detected_county(matches, by_paren, by_code, by_name) ==
  IF by_paren # 0 THEN Str(table_get(COUNTY_ABBREVIATIONS, matches[by_paren]))
  ELSE IF by_code # 0 THEN Str(COUNTY_ABBREVIATIONS[by_code][2])
  ELSE IF by_name # 0 THEN Str(COUNTY_ABBREVIATIONS[by_name][2])
  ELSE None
detect_in(uppercase, matches) ==
  detected_county(matches, paren_hit(matches), code_hit(uppercase), name_hit(uppercase))
detect_upper(uppercase) == detect_in(uppercase, findall_codes(uppercase, 1))
_detect_county_hint(raw_name) == detect_upper(upper(raw_name))

expand_token(lowered) ==
  IF table_has(TOKEN_EXPANSIONS, lowered) THEN table_get(TOKEN_EXPANSIONS, lowered)
  ELSE IF table_has(COUNTY_ABBREVIATIONS, upper(lowered))
       THEN split(table_get(COUNTY_ABBREVIATIONS, upper(lowered)))
       ELSE <<lowered>>
_normalize_token(token) == expand_token(lower(token))

\* normalize_name, lines 117-125: punctuation to spaces, lowercase
working_string(raw_name) ==
  LET replaced == replace(replace(replace(replace(raw_name,
                    <<"&">>, <<" ","a","n","d"," ">>), <<"-">>, <<" ">>), <<"_">>, <<" ">>), <<"/">>, <<" ">>)
  IN  lower(sub_not_alnum_or_space(sub_parens(replaced)))

\* normalize_name, lines 127-130: split and expand every token
RECURSIVE extend_all(_)
extend_all(tokens) ==
  IF tokens = <<>> THEN <<>> ELSE _normalize_token(tokens[1]) \o extend_all(Tail(tokens))
expanded_tokens(raw_name) == extend_all(split(working_string(raw_name)))

\* every non-empty token is kept, repeated or not
dedupe_tokens_skipped(expanded, seen, deduped) ==
  deduped \o SelectSeq(expanded, LAMBDA token : token # <<>>)
\* each token's last occurrence is kept
RECURSIVE dedupe_tokens_keeping_last(_, _, _)
dedupe_tokens_keeping_last(expanded, seen, deduped) ==
  IF expanded = <<>> THEN deduped
  ELSE IF expanded[1] # <<>> /\ expanded[1] \notin Range(Tail(expanded))
       THEN dedupe_tokens_keeping_last(Tail(expanded), seen, Append(deduped, expanded[1]))
       ELSE dedupe_tokens_keeping_last(Tail(expanded), seen, deduped)
\* normalize_name, lines 132-137: keep each token's first occurrence
RECURSIVE dedupe_tokens(_, _, _)
dedupe_tokens(expanded, seen, deduped) ==
  IF expanded = <<>> THEN deduped
  ELSE IF expanded[1] # <<>> /\ expanded[1] \notin seen
       THEN dedupe_tokens(Tail(expanded), seen \cup {expanded[1]}, Append(deduped, expanded[1]))
       ELSE dedupe_tokens(Tail(expanded), seen, deduped)

\* normalize_name, lines 114-115: an explicit county wins over a detected one
county_hint_of(explicit, raw_name) ==
  IF Truthy(explicit) THEN explicit ELSE _normalize_county_input(_detect_county_hint(raw_name))
\* normalize_name, lines 139-143
normalized_query(deduped, county_hint) ==
  [normalized |-> join(<<" ">>, deduped), tokens |-> deduped, countyHint |-> county_hint]

normalize_name(raw_name, explicit_county) ==
  IF ~isinstance_str(raw_name)
  THEN [normalized |-> <<>>, tokens |-> <<>>, countyHint |-> None]
  ELSE normalized_query(dedupe_tokens(expanded_tokens(raw_name.s), {}, <<>>),
                        county_hint_of(_normalize_county_input(explicit_county), raw_name.s))

-----------------------------------------------------------------------------
(* gnis_loader.py: the pure part of the load (the lock is in the actions)  *)

\* _hydrate, lines 28-34: the record with its normalized form and its tokens
hydrated_record(record, normalized) ==
  [official_name |-> record.official_name,
   feature_type |-> record.feature_type,
   county_name |-> record.county_name,
   latitude |-> record.latitude,
   longitude |-> record.longitude,
   alternative_names |-> record.alternative_names,
   normalized |-> normalized,
   tokens |-> normalized.tokens]
_hydrate(gnis_records) ==
  [i \in 1..Len(gnis_records) |->
     hydrated_record(gnis_records[i], normalize_name(Str(gnis_records[i].official_name), None))]

\* a number as a tuple element: 47 and 47.0 are the same key
number_key(x) == <<x.hi, x.lo, x.tenths, x.neg /\ ~(x.hi = 0 /\ x.lo = 0 /\ x.tenths = 0)>>
record_key(record) == <<record.official_name, number_key(record.latitude), number_key(record.longitude)>>

\* keep the last record of each key
RECURSIVE dedupe_records_keeping_last(_, _, _)
dedupe_records_keeping_last(hydrated, seen, deduped) ==
  IF hydrated = <<>> THEN deduped
  ELSE IF \E i \in 2..Len(hydrated) : record_key(hydrated[i]) = record_key(hydrated[1])
       THEN dedupe_records_keeping_last(Tail(hydrated), seen, deduped)
       ELSE dedupe_records_keeping_last(Tail(hydrated), seen, Append(deduped, hydrated[1]))
\* load_gnis_database, lines 58-65: keep the first record of each key
RECURSIVE dedupe_records(_, _, _)
dedupe_records(hydrated, seen, deduped) ==
  IF hydrated = <<>> THEN deduped
  ELSE IF record_key(hydrated[1]) \in seen
       THEN dedupe_records(Tail(hydrated), seen, deduped)
       ELSE dedupe_records(Tail(hydrated), seen \cup {record_key(hydrated[1])}, Append(deduped, hydrated[1]))

\* load_gnis_database, lines 47-67, for the contents of the two dataset files
\* (hydrography = <<>> when HYDROGRAPHY_DATA_PATH is unset or names no file)
load_records(gnis_records, hydro_records) ==
  dedupe_records(_hydrate(gnis_records) \o _hydrate(hydro_records), {}, <<>>)

-----------------------------------------------------------------------------
(* matcher.py                                                              *)

MIN_TOKEN_SCORE == 3
\* -math.inf: below every score, and unchanged by adding the county boost
NEG_INF == -1000

Min(a, b) == IF a <= b THEN a ELSE b
Max(a, b) == IF a >= b THEN a ELSE b

\* _levenshtein, lines 20-22: the entries of the columns first..until appended to row, which
\* holds those of the columns before first. The
\* loop over first..until is the loop over its first half followed by the loop over its
\* second half, which keeps the evaluation shallow
RECURSIVE levenshtein_row(_, _, _, _, _, _)
levenshtein_row(prev_row, ca, b, first, until, row) ==
  IF Len(row) > until THEN row
  ELSE IF first = until
  THEN Append(row, Min(Min(row[Len(row)] + 1, prev_row[first + 1] + 1),
                       prev_row[first] + (IF ca = b[first] THEN 0 ELSE 1)))
  ELSE levenshtein_row(prev_row, ca, b, (first + until) \div 2 + 1, until,
         levenshtein_row(prev_row, ca, b, first, (first + until) \div 2, row))

\* _levenshtein, lines 19-23: prev_row after the rows of a[first..until], halved likewise
RECURSIVE levenshtein_rows(_, _, _, _, _)
levenshtein_rows(a, b, first, until, prev_row) ==
  IF first > until \/ Len(prev_row) = 0 THEN prev_row
  ELSE IF first = until THEN levenshtein_row(prev_row, a[first], b, 1, Len(b), <<first>>)
  ELSE levenshtein_rows(a, b, (first + until) \div 2 + 1, until,
         levenshtein_rows(a, b, first, (first + until) \div 2, prev_row))

last(row) == row[Len(row)]
\* the first row counts from one
_levenshtein_from_one(a, b) ==
  IF a = b THEN 0
  ELSE IF a = <<>> THEN Len(b)
  ELSE IF b = <<>> THEN Len(a)
  ELSE last(levenshtein_rows(a, b, 1, Len(a), [j \in 1..(Len(b) + 1) |-> j]))
_levenshtein(a, b) ==
  IF a = b THEN 0
  ELSE IF a = <<>> THEN Len(b)
  ELSE IF b = <<>> THEN Len(a)
  ELSE last(levenshtein_rows(a, b, 1, Len(a), [j \in 1..(Len(b) + 1) |-> j - 1]))

_tokens_partially_match(a, b) ==
  IF a = b THEN FALSE
  ELSE IF Len(a) < 3 \/ Len(b) < 3 THEN FALSE
  ELSE contains(a, b) \/ contains(b, a)

\* _compute_token_score, lines 40-53: positions credited exactly, then partially
exact_positions(query_tokens, candidate_tokens) ==
  {idx \in DOMAIN candidate_tokens : candidate_tokens[idx] \in Range(query_tokens)}
\* a position credited exactly may be credited partially as well
partial_positions_again(query_tokens, candidate_tokens, used) ==
  {i \in DOMAIN candidate_tokens :
     \E q \in DOMAIN query_tokens : _tokens_partially_match(query_tokens[q], candidate_tokens[i])}
partial_positions(query_tokens, candidate_tokens, used) ==
  {i \in DOMAIN candidate_tokens \ used :
     \E q \in DOMAIN query_tokens : _tokens_partially_match(query_tokens[q], candidate_tokens[i])}
\* lines 55-61
token_score(exact, partial, penalty) ==
  [score |-> exact * 3 + partial - penalty, exact |-> exact, partial |-> partial]
credited_score(query_tokens, query_string, candidate_tokens, used) ==
  token_score(Cardinality(used),
              Cardinality(partial_positions(query_tokens, candidate_tokens, used)),
              Min(_levenshtein(query_string, join(<<" ">>, candidate_tokens)), 10))
_compute_token_score(query_tokens, query_string, candidate_tokens) ==
  IF query_tokens = <<>> \/ candidate_tokens = <<>>
  THEN [score |-> NEG_INF, exact |-> 0, partial |-> 0]
  ELSE credited_score(query_tokens, query_string, candidate_tokens,
                      exact_positions(query_tokens, candidate_tokens))

\* the boost is given whenever both counties are known
_county_boost_unmatched(input_county, candidate_county) ==
  IF ~Truthy(input_county) \/ ~Truthy(candidate_county) THEN 0 ELSE 2
_county_boost(input_county, candidate_county) ==
  IF ~Truthy(input_county) \/ ~Truthy(candidate_county) THEN 0
  ELSE IF contains(lower(input_county.s), lower(candidate_county.s)) THEN 2 ELSE 0

\* x + boost, where x may be -inf
add_score(x, boost) == IF x = NEG_INF THEN NEG_INF ELSE x + boost

\* _fuzzy_fallback, lines 73-75: the stored normalized name, or a fresh one when it is empty
normalized_of(record) ==
  IF record.normalized.normalized # <<>> THEN record.normalized.normalized
  ELSE normalize_name(Str(record.official_name), None).normalized
\* the score without its floor
fuzzy_score_unclamped(distance) == 20 - distance
\* every record gets the lowest score
fuzzy_score_flat(distance) == 1
\* _fuzzy_fallback, lines 76-77
fuzzy_score(distance) == Max(1, 20 - distance)
\* a later record with the same fuzzy score replaces the best
better_or_equal(best, record, score) ==
  IF best = <<>> \/ score >= best[1].score THEN <<[record |-> record, score |-> score]>> ELSE best
\* lines 78-79: best is <<>> (None) or <<[record, score]>>; a later equal score does not win
better(best, record, score) ==
  IF best = <<>> \/ score > best[1].score THEN <<[record |-> record, score |-> score]>> ELSE best
RECURSIVE fuzzy_best(_, _, _)
fuzzy_best(records, query_string, best) ==
  IF records = <<>> THEN best
  ELSE fuzzy_best(Tail(records), query_string,
                  better(best, records[1],
                         fuzzy_score(_levenshtein(query_string, normalized_of(records[1])))))
\* the fuzzy result without its strategy
fuzzy_result_unlabelled(best) ==
  IF best = <<>> THEN None
  ELSE [officialName |-> Str(best[1].record.official_name),
        lat |-> best[1].record.latitude,
        lng |-> best[1].record.longitude,
        matched_score |-> PyInt(best[1].score),
        source |-> "algorithm"]
\* _fuzzy_fallback, lines 80-89
fuzzy_result(best) ==
  IF best = <<>> THEN None
  ELSE [officialName |-> Str(best[1].record.official_name),
        lat |-> best[1].record.latitude,
        lng |-> best[1].record.longitude,
        matched_score |-> PyInt(best[1].score),
        source |-> "algorithm",
        strategy |-> "fuzzy"]
\* no fallback
_fuzzy_fallback_absent(records, query_string) == None
_fuzzy_fallback(records, query_string) == fuzzy_result(fuzzy_best(records, query_string, <<>>))

\* find_matching_lake, lines 109-112: the record's own tokens, then each alternative name's
token_sets_of(record) ==
  <<record.tokens>> \o
  [k \in 1..Len(record.alternative_names) |->
     normalize_name(Str(record.alternative_names[k]), None).tokens]

\* find_matching_lake, lines 99-105
narrowed_or_all(records, narrowed) == IF narrowed # <<>> THEN narrowed ELSE records
\* every record is a candidate, whatever the county hint
narrow_candidates_skipped(records, county_hint) == records
narrow_candidates(records, county_hint) ==
  IF Truthy(county_hint)
  THEN narrowed_or_all(records,
         SelectSeq(records, LAMBDA record : /\ record.county_name # <<>>
                                            /\ contains(lower(county_hint.s), lower(record.county_name))))
  ELSE records

\* find_matching_lake, lines 115-116
token_total(record, query_tokens, query_string, county_hint, token_set) ==
  add_score(_compute_token_score(query_tokens, query_string, token_set).score,
            _county_boost(county_hint, Str(record.county_name)))
\* a later candidate with an equal score wins
better_match_on_ties(best_match, record, token_set, score) ==
  IF best_match = <<>> \/ score >= best_match[1].score
  THEN <<[record |-> record, score |-> score, tokens |-> token_set]>> ELSE best_match
\* lines 117-127: best_match is <<>> (None) or <<[record, score, tokens]>>
better_match(best_match, record, token_set, score) ==
  IF best_match = <<>> \/ score > best_match[1].score
  THEN <<[record |-> record, score |-> score, tokens |-> token_set]>> ELSE best_match
RECURSIVE best_over_token_sets(_, _, _, _, _, _)
best_over_token_sets(record, token_sets, query_tokens, query_string, county_hint, best_match) ==
  IF token_sets = <<>> THEN best_match
  ELSE best_over_token_sets(record, Tail(token_sets), query_tokens, query_string, county_hint,
         better_match(best_match, record, token_sets[1],
                      token_total(record, query_tokens, query_string, county_hint, token_sets[1])))

\* find_matching_lake, lines 107-127
RECURSIVE best_over_candidates(_, _, _, _, _)
best_over_candidates(candidates, query_tokens, query_string, county_hint, best_match) ==
  IF candidates = <<>> THEN best_match
  ELSE best_over_candidates(Tail(candidates), query_tokens, query_string, county_hint,
         best_over_token_sets(candidates[1], token_sets_of(candidates[1]),
                              query_tokens, query_string, county_hint, best_match))
\* lines 94-127: the best candidate of the token strategy, <<>> when there is no record
best_match_of(records, normalized_input) ==
  best_over_candidates(narrow_candidates(records, normalized_input.countyHint),
                       normalized_input.tokens, normalized_input.normalized,
                       normalized_input.countyHint, <<>>)

\* a score equal to the threshold is not accepted
accepts_above(score) == score > MIN_TOKEN_SCORE
\* find_matching_lake, line 129
accepts(score) == score >= MIN_TOKEN_SCORE
\* lines 118-127
token_result(best) ==
  [officialName |-> Str(best.record.official_name),
   lat |-> best.record.latitude,
   lng |-> best.record.longitude,
   matched_score |-> PyInt(best.score),
   source |-> "algorithm",
   strategy |-> "token",
   feature_type |-> best.record.feature_type,
   county_name |-> best.record.county_name]
\* no answer when no candidate reaches the threshold
match_or_fallback_strict(best_match, records, query_string) ==
  IF best_match # <<>> /\ accepts(best_match[1].score) THEN token_result(best_match[1])
  ELSE None
\* lines 129-132
match_or_fallback(best_match, records, query_string) ==
  IF best_match # <<>> /\ accepts(best_match[1].score) THEN token_result(best_match[1])
  ELSE _fuzzy_fallback(records, query_string)

\* records is what load_gnis_database() returned
find_matching_lake(records, normalized_input) ==
  match_or_fallback(best_match_of(records, normalized_input), records, normalized_input.normalized)
-----------------------------------------------------------------------------
(* Number formatting and parsing, as write_cache and check_cache use them  *)

RECURSIVE decimal_digits(_)
decimal_digits(n) ==
  IF n < 10 THEN <<digits[n + 1]>> ELSE decimal_digits(n \div 10) \o <<digits[(n % 10) + 1]>>
zero_padded(n, width) ==
  LET d == decimal_digits(n) IN [i \in 1..(width - Len(d)) |-> "0"] \o d

\* str(value) of an int, a float with one decimal digit, or None
str(value) ==
  IF value.type = "NoneType" THEN <<"N","o","n","e">>
  ELSE (IF value.neg THEN <<"-">> ELSE <<>>)
       \o (IF value.hi > 0 THEN decimal_digits(value.hi) \o zero_padded(value.lo, 8)
           ELSE decimal_digits(value.lo))
       \o (IF value.type = "float" THEN <<".", digits[value.tenths + 1]>> ELSE <<>>)

RECURSIVE int_of_digits(_)
int_of_digits(ds) ==
  IF ds = <<>> THEN 0
  ELSE int_of_digits(SubSeq(ds, 1, Len(ds) - 1)) * 10 + (IndexIn(ds[Len(ds)], digits) - 1)

\* a decimal numeral: [-]digits[.digits]
is_numeral(s) ==
  LET body == IF s # <<>> /\ s[1] = "-" THEN Tail(s) ELSE s
      dots == {i \in DOMAIN body : body[i] = "."}
  IN  /\ body # <<>>
      /\ Cardinality(dots) <= 1
      /\ \A i \in DOMAIN body : body[i] \in DigitSet \/ body[i] = "."
      /\ \E i \in DOMAIN body : body[i] \in DigitSet

\* float(s) of a numeral of at most 16 integer digits; the first decimal digit is kept
float(s) ==
  LET neg == s[1] = "-"
      body == IF neg THEN Tail(s) ELSE s
      dot == first_true([i \in DOMAIN body |-> body[i] = "."])
      whole == IF dot = 0 THEN body ELSE SubSeq(body, 1, dot - 1)
      frac == IF dot = 0 THEN <<>> ELSE SubSeq(body, dot + 1, Len(body))
      split_at == IF Len(whole) > 8 THEN Len(whole) - 8 ELSE 0
  IN  Number("float", neg,
             int_of_digits(SubSeq(whole, 1, split_at)),
             int_of_digits(SubSeq(whole, split_at + 1, Len(whole))),
             IF frac = <<>> THEN 0 ELSE IndexIn(frac[1], digits) - 1)

-----------------------------------------------------------------------------
(* manual_override.py                                                      *)

\* _load_overrides, lines 14-18: the parsed file, or {} when there is no file
read_overrides(file) == IF file.state = "missing" THEN <<>> ELSE file.json

\* the lookup under the lowercased name
manual_override_check_lowercased(overrides, wdfw_name) ==
  IF ~table_has(overrides, lower(wdfw_name)) THEN None
  ELSE [officialName |-> table_get(overrides, lower(wdfw_name)).official_name,
        lat |-> table_get(overrides, lower(wdfw_name)).lat,
        lng |-> table_get(overrides, lower(wdfw_name)).lng,
        matched_score |-> Number("int", FALSE, 90071992, 54740991, 0),
        source |-> "manual_override"]
\* manual_override_check, lines 23-32, on the mapping _load_overrides() returned
manual_override_check(overrides, wdfw_name) ==
  IF ~table_has(overrides, wdfw_name) THEN None
  ELSE LET override == table_get(overrides, wdfw_name)
       IN  IF DOMAIN override = {} THEN None
           ELSE [officialName |-> override.official_name,
                 lat |-> override.lat,
                 lng |-> override.lng,
                 matched_score |-> Number("int", FALSE, 90071992, 54740991, 0),
                 source |-> "manual_override"]

-----------------------------------------------------------------------------
(* cache.py                                                                *)

\* client.get_item(TableName=table, Key={"lake_name": {"S": lake_name}})
get_item(table, lake_name) ==
  IF lake_name \in DOMAIN table THEN [Item |-> table[lake_name]] ELSE [ResponseMetadata |-> <<>>]

\* a read that raised is answered from the table all the same
check_cache_unguarded(table_name, table, backend_ok, lake_name) ==
  IF table_name = "" THEN None
  ELSE IF "Item" \notin DOMAIN get_item(table, lake_name) THEN None
  ELSE [officialName |-> Str(get_item(table, lake_name).Item.official_name.S),
        lat |-> float(get_item(table, lake_name).Item.lat.N),
        lng |-> float(get_item(table, lake_name).Item.lng.N),
        matched_score |-> float(get_item(table, lake_name).Item.matched_score.N),
        source |-> "cache"]
\* check_cache on the table's contents: backend_ok = FALSE is get_item raising
check_cache(table_name, table, backend_ok, lake_name) ==
  IF table_name = "" THEN None
  ELSE IF ~backend_ok THEN None
  ELSE LET response == get_item(table, lake_name)
       IN  IF "Item" \notin DOMAIN response THEN None
           ELSE LET item == response.Item
                IN  [officialName |-> IF "official_name" \in DOMAIN item THEN Str(item.official_name.S) ELSE None,
                     lat |-> IF "lat" \in DOMAIN item THEN float(item.lat.N) ELSE None,
                     lng |-> IF "lng" \in DOMAIN item THEN float(item.lng.N) ELSE None,
                     matched_score |-> IF "matched_score" \in DOMAIN item
                                       THEN float(item.matched_score.N) ELSE None,
                     source |-> "cache"]

\* lat and lng stored under each other's attribute
cache_item_swapped(lake_name, result, utcnow) ==
  [lake_name |-> [S |-> lake_name],
   official_name |-> [S |-> IF "officialName" \in DOMAIN result /\ Truthy(result.officialName)
                            THEN result.officialName.s ELSE <<>>],
   lat |-> [N |-> str(IF "lng" \in DOMAIN result THEN result.lng ELSE None)],
   lng |-> [N |-> str(IF "lat" \in DOMAIN result THEN result.lat ELSE None)],
   matched_score |-> [N |-> str(IF "matched_score" \in DOMAIN result THEN result.matched_score ELSE PyInt(0))],
   created_at |-> [S |-> utcnow]]
\* the score is not stored
cache_item_unscored(lake_name, result, utcnow) ==
  [lake_name |-> [S |-> lake_name],
   official_name |-> [S |-> IF "officialName" \in DOMAIN result /\ Truthy(result.officialName)
                            THEN result.officialName.s ELSE <<>>],
   lat |-> [N |-> str(IF "lat" \in DOMAIN result THEN result.lat ELSE None)],
   lng |-> [N |-> str(IF "lng" \in DOMAIN result THEN result.lng ELSE None)],
   matched_score |-> [N |-> str(PyInt(0))],
   created_at |-> [S |-> utcnow]]
\* write_cache, lines 62-69
cache_item(lake_name, result, utcnow) ==
  [lake_name |-> [S |-> lake_name],
   official_name |-> [S |-> IF "officialName" \in DOMAIN result /\ Truthy(result.officialName)
                            THEN result.officialName.s ELSE <<>>],
   lat |-> [N |-> str(IF "lat" \in DOMAIN result THEN result.lat ELSE None)],
   lng |-> [N |-> str(IF "lng" \in DOMAIN result THEN result.lng ELSE None)],
   matched_score |-> [N |-> str(IF "matched_score" \in DOMAIN result THEN result.matched_score ELSE PyInt(0))],
   created_at |-> [S |-> utcnow]]

\* client.put_item: the backend rejects an N attribute that is no numeral
put_item_accepts(item) ==
  is_numeral(item.lat.N) /\ is_numeral(item.lng.N) /\ is_numeral(item.matched_score.N)

\* write_cache: the table's contents afterwards; backend_ok = FALSE is put_item raising
write_cache(table_name, table, backend_ok, lake_name, result, utcnow) ==
  IF table_name = "" THEN table
  ELSE LET item == cache_item(lake_name, result, utcnow)
       IN  IF backend_ok /\ put_item_accepts(item)
           THEN [k \in DOMAIN table \cup {lake_name} |-> IF k = lake_name THEN item ELSE table[k]]
           ELSE table

-----------------------------------------------------------------------------
(* match_service.py                                                        *)

\* the key without the county hint
_build_cache_key_bare(lake_name, county_hint) == lake_name
_build_cache_key(lake_name, county_hint) ==
  IF Truthy(county_hint) THEN lake_name \o <<"|">> \o county_hint.s ELSE lake_name

\* _serialize_decimal: a Decimal becomes a float, anything else is returned as it is
_serialize_decimal(value) ==
  IF "type" \in DOMAIN value
  THEN IF value.type = "Decimal" THEN [value EXCEPT !.type = "float"] ELSE value
  ELSE [k \in DOMAIN value |->
          IF k \in {"lat", "lng", "matched_score"} /\ value[k].type = "Decimal"
          THEN [value[k] EXCEPT !.type = "float"] ELSE value[k]]

\* a blank name passes
valid_name_unstripped(wdfw_name) ==
  IF ~Truthy(wdfw_name) \/ ~isinstance_str(wdfw_name) THEN <<>>
  ELSE <<strip(wdfw_name.s)>>
\* match_lake_name, lines 28-33: the trimmed name, or <<>> when the call raises ValueError
valid_name(wdfw_name) ==
  IF ~Truthy(wdfw_name) \/ ~isinstance_str(wdfw_name) THEN <<>>
  ELSE IF strip(wdfw_name.s) = <<>> THEN <<>>
  ELSE <<strip(wdfw_name.s)>>

\* match_lake_name, lines 55-61
null_result ==
  [officialName |-> None, lat |-> None, lng |-> None, matched_score |-> PyInt(0), source |-> "algorithm"]

-----------------------------------------------------------------------------
(* State                                                                   *)

VARIABLES
  files,                  \* the dataset files: gnis, hydro, override; each [state, json]
  LAKE_MATCH_CACHE_TABLE, \* the environment variable: "" disables the cache
  dynamodb,               \* the cache table: key |-> item
  _records, _loaded,      \* gnis_loader's module state
  _lock,                  \* gnis_loader._lock: "free" or the thread holding it
  overrides_memo,         \* lru_cache of _load_overrides: <<>> or <<mapping>>
  pc,                     \* each thread's position
  args,                   \* each thread's call arguments
  locals,                 \* each thread's local variables
  ret,                    \* each thread's last outcome: a return value or an exception
  calls,                  \* calls started so far (also the clock of created_at)
  prev,                   \* history: the result of the thread's previous, identical call
  io_failed,              \* history: the cache operations of the current call that raised
  peer,                   \* history: the call overlapped an identical call of another thread
  loads,                  \* history: [reads, hydrations] of the dataset
  fn_input, fn_output     \* a pure function's arguments and results

vars == <<files, LAKE_MATCH_CACHE_TABLE, dynamodb, _records, _loaded, _lock, overrides_memo,
          pc, args, locals, ret, calls, prev, io_failed, peer, loads, fn_input, fn_output>>

-----------------------------------------------------------------------------
(* Bounds and inputs                                                       *)

\* calls started in one behaviour
MaxCalls == 3

Threads == {"t1", "t2"}
\* the threads are interchangeable: the first call of a behaviour is t1's
FirstCaller == "t1"

\* a file: missing, not parseable as JSON, or holding a JSON value
no_file == [state |-> "missing", json |-> <<>>]
corrupt_file == [state |-> "corrupt", json |-> <<>>]
file_of(json) == [state |-> "ok", json |-> json]

LostLakeSnohomish ==
  [official_name |-> <<"L","o","s","t"," ","L","a","k","e">>, feature_type |-> "Lake",
   county_name |-> <<"S","n","o","h","o","m","i","s","h">>,
   latitude |-> PyFloat(FALSE, 47, 9), longitude |-> PyFloat(TRUE, 122, 1),
   alternative_names |-> <<>>]
LostLakeKing ==
  [official_name |-> <<"L","o","s","t"," ","L","a","k","e">>, feature_type |-> "Lake",
   county_name |-> <<"K","i","n","g">>,
   latitude |-> PyFloat(FALSE, 47, 4), longitude |-> PyFloat(TRUE, 121, 9),
   alternative_names |-> << <<"D","e","v","i","l","s"," ","L","k">> >>]
ZedPond ==
  [official_name |-> <<"Z","e","d"," ","P","o","n","d">>, feature_type |-> "Reservoir",
   county_name |-> <<"P","i","e","r","c","e">>,
   latitude |-> PyFloat(FALSE, 47, 0), longitude |-> PyFloat(TRUE, 122, 5),
   alternative_names |-> <<>>]

SampleGnis == <<LostLakeSnohomish, LostLakeKing, ZedPond>>

OverrideName == <<"P","D","-","S">>
SampleOverrides ==
  << <<OverrideName, [official_name |-> Str(<<"S","o","u","t","h"," ","P","o","n","d">>),
                      lat |-> PyFloat(FALSE, 46, 5), lng |-> PyFloat(TRUE, 122, 8)]>> >>

\* wdfw_name: missing, not a string, empty, blank, and three names
InvalidNames == { None, PyInt(7), Str(<<>>), Str(<<" "," ">>) }
ValidNames ==
  { Str(<<" ","P","D","-","S"," ">>),
    Str(<<"L","o","s","t"," ","L","k">>),
    Str(<<"Z","e","d"," ","P","n","d">>) }
NameChoices == InvalidNames \cup ValidNames
CountyChoices == { None, Str(<<"K","i","n","g">>) }
\* the county of a call that raises ValueError is never read
ArgChoices ==
  {[wdfw_name |-> n, county |-> None] : n \in InvalidNames}
  \cup {[wdfw_name |-> n, county |-> c] : n \in ValidNames, c \in CountyChoices}

\* a cache entry left by an earlier deployment, under the name that now has an override
StaleCache ==
  LET table == [k \in {} |-> None]
  IN  write_cache("lake-match-cache", table, TRUE, OverrideName,
                  [officialName |-> Str(<<"Z","e","d"," ","P","o","n","d">>),
                   lat |-> PyFloat(FALSE, 47, 0), lng |-> PyFloat(TRUE, 122, 5),
                   matched_score |-> PyInt(4)], <<"0">>)

-----------------------------------------------------------------------------
(* Memoised calls: the state space revisits the same arguments             *)

\* [x \in S |-> e] is evaluated anew at every application; tabulated(f) is f computed once
tabulated(f) == f @@ <<>>
\* the stored value of a call made before, the call itself otherwise
recall(memo, key, otherwise) == IF key \in DOMAIN memo THEN memo[key] ELSE otherwise

TrimmedChoices == {valid_name(n)[1] : n \in ValidNames}
normalize_memo ==
  tabulated([q \in TrimmedChoices \X CountyChoices |-> normalize_name(Str(q[1]), q[2])])
normalize_name_of(trimmed, county) ==
  recall(normalize_memo, <<trimmed, county>>, normalize_name(Str(trimmed), county))

\* the deployments the resolver is started in
Configs ==
  LET main == [gnis |-> file_of(SampleGnis), override |-> file_of(SampleOverrides),
               table_name |-> "lake-match-cache", table |-> [k \in {} |-> None]]
  IN  { main,
        [main EXCEPT !.table = StaleCache],
        [main EXCEPT !.table_name = ""],
        [main EXCEPT !.gnis = file_of(<<>>)],
        [main EXCEPT !.gnis = no_file],
        [main EXCEPT !.override = no_file],
        [main EXCEPT !.override = corrupt_file] }

GnisChoices == { <<>>, SampleGnis }
load_memo == tabulated([g \in GnisChoices |-> load_records(g, <<>>)])
load_records_of(gnis_records, hydro_records) ==
  IF hydro_records = <<>>
  THEN recall(load_memo, gnis_records, load_records(gnis_records, hydro_records))
  ELSE load_records(gnis_records, hydro_records)

match_memo ==
  tabulated([q \in {load_memo[g] : g \in GnisChoices} \X {normalize_memo[n] : n \in DOMAIN normalize_memo}
               |-> find_matching_lake(q[1], q[2])])
find_matching_lake_of(records, normalized_input) ==
  recall(match_memo, <<records, normalized_input>>, find_matching_lake(records, normalized_input))
-----------------------------------------------------------------------------
(* Outcomes of a call                                                      *)

no_outcome == [kind |-> "none"]
returned(value) == [kind |-> "return", value |-> value]
raised(exc) == [kind |-> "raise", exc |-> exc]
no_locals == [trimmed |-> <<>>, normalized |-> None, cache_key |-> <<>>, result |-> None]

\* get_item / put_item may raise only when the cache is configured
BackendOutcomes == IF LAKE_MATCH_CACHE_TABLE = "" THEN {TRUE} ELSE BOOLEAN

\* datetime.utcnow().isoformat(): the logical time of the write
utcnow == decimal_digits(calls)

Finish(t, outcome) ==
  /\ pc' = [pc EXCEPT ![t] = "done"]
  /\ ret' = [ret EXCEPT ![t] = outcome]
  /\ locals' = [locals EXCEPT ![t] = no_locals]

\* history: the call t completes now, with a matcher result it has just written or without
prev_after(t, outcome, written) ==
  [u \in DOMAIN prev |->
     IF u = t
     THEN IF written THEN [value |-> outcome.value, stage |-> "first"]
          ELSE IF prev[t] # None /\ prev[t].stage = "again" THEN prev[t] ELSE None
     ELSE prev[u]]

-----------------------------------------------------------------------------
(* match_lake_name, one action per stretch between two cache operations    *)

\* lines 39-41: the normalized query and the cache key
Normalized(t, trimmed, normalized, repeated) ==
  /\ pc' = [pc EXCEPT ![t] = "check_cache"]
  /\ locals' = [locals EXCEPT ![t] =
       [trimmed |-> trimmed, normalized |-> normalized,
        cache_key |-> _build_cache_key(trimmed, normalized.countyHint), result |-> None]]
  /\ prev' = [prev EXCEPT ![t] = IF repeated /\ prev[t] # None
                                  THEN [prev[t] EXCEPT !.stage = "again"] ELSE None]
  /\ UNCHANGED ret

\* lines 35-37: the override table, read from its file by the first call that gets here
Consulted(t, trimmed, county, overrides, repeated) ==
  /\ overrides_memo' = <<overrides>>
  /\ IF manual_override_check(overrides, trimmed) # None
     THEN /\ Finish(t, returned(manual_override_check(overrides, trimmed)))
          /\ prev' = [prev EXCEPT ![t] = None]
     ELSE Normalized(t, trimmed, normalize_name_of(trimmed, county), repeated)

\* lines 28-41: validation, the override table, normalization, the cache key
Call(t, wdfw_name, county) ==
  /\ pc[t] \in {"idle", "done"}
  /\ calls < MaxCalls
  /\ calls = 0 => t = FirstCaller
  /\ calls' = calls + 1
  /\ args' = [args EXCEPT ![t] = [wdfw_name |-> wdfw_name, county |-> county]]
  /\ io_failed' = [io_failed EXCEPT ![t] = {}]
  /\ LET twin == {u \in Threads \ {t} : /\ pc[u] \notin {"idle", "done"}
                                        /\ args[u] = [wdfw_name |-> wdfw_name, county |-> county]}
     IN  peer' = [u \in Threads |-> IF u = t THEN twin # {} ELSE (peer[u] \/ u \in twin)]
  /\ IF valid_name(wdfw_name) = <<>>
     THEN /\ Finish(t, raised("ValueError"))
          /\ prev' = [prev EXCEPT ![t] = None]
          /\ UNCHANGED overrides_memo
     ELSE IF overrides_memo = <<>> /\ files.override.state = "corrupt"
     THEN \* manual_override.py lines 14-18: only FileNotFoundError is caught
          /\ Finish(t, raised("JSONDecodeError"))
          /\ prev' = [prev EXCEPT ![t] = None]
          /\ UNCHANGED overrides_memo
     ELSE Consulted(t, valid_name(wdfw_name)[1], county,
                    IF overrides_memo # <<>> THEN overrides_memo[1]
                    ELSE read_overrides(files.override),
                    pc[t] = "done" /\ args[t] = [wdfw_name |-> wdfw_name, county |-> county])
  /\ UNCHANGED <<files, LAKE_MATCH_CACHE_TABLE, dynamodb, _records, _loaded, _lock, loads,
                 fn_input, fn_output>>

\* the bare name is read after every miss, county hint or not
CheckCacheThenBare(t) ==
  /\ pc[t] = "check_cache"
  /\ \E backend_ok \in BackendOutcomes :
       LET cached == check_cache(LAKE_MATCH_CACHE_TABLE, dynamodb, backend_ok, locals[t].cache_key)
       IN  /\ io_failed' = [io_failed EXCEPT ![t] = IF backend_ok THEN @ ELSE @ \cup {"read"}]
           /\ IF cached # None
              THEN /\ Finish(t, returned(cached))
                   /\ prev' = prev_after(t, returned(cached), FALSE)
              ELSE /\ pc' = [pc EXCEPT ![t] = "check_cache_bare"]
                   /\ UNCHANGED <<ret, locals, prev>>
  /\ UNCHANGED <<files, LAKE_MATCH_CACHE_TABLE, dynamodb, _records, _loaded, _lock, overrides_memo,
                 args, calls, peer, loads, fn_input, fn_output>>
\* lines 43-47: the read at the composite key
CheckCache(t) ==
  /\ pc[t] = "check_cache"
  /\ \E backend_ok \in BackendOutcomes :
       LET cached == check_cache(LAKE_MATCH_CACHE_TABLE, dynamodb, backend_ok, locals[t].cache_key)
       IN  /\ io_failed' = [io_failed EXCEPT ![t] = IF backend_ok THEN @ ELSE @ \cup {"read"}]
           /\ IF cached # None
              THEN /\ Finish(t, returned(cached))
                   /\ prev' = prev_after(t, returned(cached), FALSE)
              ELSE /\ pc' = [pc EXCEPT ![t] =
                        IF Truthy(locals[t].normalized.countyHint) THEN "check_cache_bare" ELSE "find"]
                   /\ UNCHANGED <<ret, locals, prev>>
  /\ UNCHANGED <<files, LAKE_MATCH_CACHE_TABLE, dynamodb, _records, _loaded, _lock, overrides_memo,
                 args, calls, peer, loads, fn_input, fn_output>>

\* lines 44-47: the read at the bare name, made when a county hint is in the key
CheckCacheBare(t) ==
  /\ pc[t] = "check_cache_bare"
  /\ \E backend_ok \in BackendOutcomes :
       LET cached == check_cache(LAKE_MATCH_CACHE_TABLE, dynamodb, backend_ok, locals[t].trimmed)
       IN  /\ io_failed' = [io_failed EXCEPT ![t] = IF backend_ok THEN @ ELSE @ \cup {"read_bare"}]
           /\ IF cached # None
              THEN /\ Finish(t, returned(cached))
                   /\ prev' = prev_after(t, returned(cached), FALSE)
              ELSE /\ pc' = [pc EXCEPT ![t] = "find"]
                   /\ UNCHANGED <<ret, locals, prev>>
  /\ UNCHANGED <<files, LAKE_MATCH_CACHE_TABLE, dynamodb, _records, _loaded, _lock, overrides_memo,
                 args, calls, peer, loads, fn_input, fn_output>>

\* lines 51-61: on to the cache write, or the null result
Matched(t, result) ==
  IF result = None
  THEN /\ Finish(t, returned(null_result))
       /\ prev' = prev_after(t, returned(null_result), FALSE)
  ELSE /\ pc' = [pc EXCEPT ![t] = "write_cache"]
       /\ locals' = [locals EXCEPT ![t].result = result]
       /\ UNCHANGED <<ret, prev>>

\* matcher.py line 93 on: records is what load_gnis_database() returned
Loaded(t, records) ==
  /\ _records' = records
  /\ _loaded' = TRUE
  /\ loads' = IF _loaded THEN loads
              ELSE [loads EXCEPT !.reads = @ + 1, !.hydrations = @ + 1]
  /\ Matched(t, find_matching_lake_of(records, locals[t].normalized))

\* line 49: find_matching_lake, whose first call loads the gazetteer under the lock
Find(t) ==
  /\ pc[t] = "find"
  /\ _lock = "free"
  /\ IF ~_loaded /\ files.gnis.state # "ok"
     THEN /\ Finish(t, raised(IF files.gnis.state = "missing" THEN "FileNotFoundError"
                                                              ELSE "JSONDecodeError"))
          /\ prev' = prev_after(t, no_outcome, FALSE)
          /\ loads' = [loads EXCEPT !.failed = @ + 1]
          /\ UNCHANGED <<_records, _loaded>>
     ELSE Loaded(t, IF _loaded THEN _records
                    ELSE load_records_of(files.gnis.json, files.hydro.json))
  /\ UNCHANGED <<files, LAKE_MATCH_CACHE_TABLE, dynamodb, _lock, overrides_memo,
                 args, calls, io_failed, peer, fn_input, fn_output>>

\* lines 52-53: the write at the composite key, then the return
WriteCache(t) ==
  /\ pc[t] = "write_cache"
  /\ \E backend_ok \in BackendOutcomes :
       LET outcome == returned(_serialize_decimal(locals[t].result))
           table == write_cache(LAKE_MATCH_CACHE_TABLE, dynamodb, backend_ok,
                                locals[t].cache_key, locals[t].result, utcnow)
           written == LAKE_MATCH_CACHE_TABLE # "" /\ backend_ok
                      /\ locals[t].cache_key \in DOMAIN table
       IN  /\ dynamodb' = table
           /\ io_failed' = [io_failed EXCEPT ![t] = IF backend_ok THEN @ ELSE @ \cup {"write"}]
           /\ Finish(t, outcome)
           /\ prev' = prev_after(t, outcome, written)
  /\ UNCHANGED <<files, LAKE_MATCH_CACHE_TABLE, _records, _loaded, _lock, overrides_memo,
                 args, calls, peer, loads, fn_input, fn_output>>

\* nothing loaded, no call made by any of the threads
AtRest(threads) ==
  /\ _records = <<>>
  /\ _loaded = FALSE
  /\ _lock = "free"
  /\ overrides_memo = <<>>
  /\ pc = [t \in threads |-> "idle"]
  /\ args = [t \in threads |-> [wdfw_name |-> None, county |-> None]]
  /\ locals = [t \in threads |-> no_locals]
  /\ ret = [t \in threads |-> no_outcome]
  /\ calls = 0
  /\ prev = [t \in threads |-> None]
  /\ io_failed = [t \in threads |-> {}]
  /\ peer = [t \in threads |-> FALSE]
  /\ loads = [reads |-> 0, hydrations |-> 0, failed |-> 0]

Init ==
  /\ \E config \in Configs :
       /\ files = [gnis |-> config.gnis, hydro |-> no_file, override |-> config.override]
       /\ LAKE_MATCH_CACHE_TABLE = config.table_name
       /\ dynamodb = config.table
  /\ AtRest(Threads)
  /\ fn_input = None
  /\ fn_output = <<>>

Next ==
  \E t \in Threads :
    \/ \E a \in ArgChoices : Call(t, a.wdfw_name, a.county)
    \/ CheckCache(t)
    \/ CheckCacheBare(t)
    \/ Find(t)
    \/ WriteCache(t)

Spec == Init /\ [][Next]_vars

-----------------------------------------------------------------------------
(* normalize_name alone: applied to a name, then to its own output         *)

\* the resolver's variables while a pure function is exercised
Unused ==
  /\ files = [gnis |-> no_file, hydro |-> no_file, override |-> no_file]
  /\ LAKE_MATCH_CACHE_TABLE = ""
  /\ dynamodb = [k \in {} |-> None]
  /\ AtRest(Threads)
resolver_vars ==
  <<files, LAKE_MATCH_CACHE_TABLE, dynamodb, _records, _loaded, _lock, overrides_memo,
    pc, args, locals, ret, calls, prev, io_failed, peer, loads>>

\* words of a raw name
MaxWords == 3
\* an abbreviation, its expansion, county codes alone and parenthesised, a county word,
\* a code whose county repeats a word, punctuation, the word after a county code
Words ==
  { <<"L","k">>, <<"l","a","k","e">>, <<"P","E","N","D">>, <<"o","r","e","i","l","l","e">>,
    <<"W","A","L","L">>, <<"(","S","N","O","H",")">>, <<"P","D","-","S","&">>, <<"C","o">> }
RawNames == {join(<<" ">>, words) : words \in UNION {[1..n -> Words] : n \in 0..MaxWords}}
NormInputs ==
  {[raw_name |-> Str(s), explicit_county |-> c] :
     s \in RawNames, c \in CountyChoices \cup {Str(<<"C","o","u","n","t","y">>)}}
  \cup {[raw_name |-> x, explicit_county |-> None] : x \in {None, PyInt(7)}}

InitNorm ==
  /\ Unused
  /\ fn_input \in NormInputs
  /\ fn_output = <<>>

Normalize ==
  /\ fn_output = <<>>
  /\ fn_output' = <<normalize_name(fn_input.raw_name, fn_input.explicit_county)>>
  /\ UNCHANGED <<fn_input, resolver_vars>>

\* the normalized string of the first result is normalized again
Renormalize ==
  /\ Len(fn_output) = 1
  /\ fn_output' = Append(fn_output, normalize_name(Str(fn_output[1].normalized), None))
  /\ UNCHANGED <<fn_input, resolver_vars>>

NextNorm == Normalize \/ Renormalize

SpecNorm == InitNorm /\ [][NextNorm]_vars

-----------------------------------------------------------------------------
(* find_matching_lake and manual_override_check alone                      *)

\* records of a gazetteer
MaxRecords == 2
\* the third pond has no county
ZedPondNowhere ==
  [official_name |-> <<"Z","e","d"," ","P","o","n","d">>, feature_type |-> "Lake",
   county_name |-> <<>>,
   latitude |-> PyFloat(FALSE, 48, 2), longitude |-> PyFloat(TRUE, 120, 3),
   alternative_names |-> <<>>]
\* a near namesake in King county
ZedPondsKing ==
  [official_name |-> <<"Z","e","d"," ","P","o","n","d","s">>, feature_type |-> "Lake",
   county_name |-> <<"K","i","n","g">>,
   latitude |-> PyFloat(FALSE, 47, 6), longitude |-> PyFloat(TRUE, 121, 7),
   alternative_names |-> <<>>]
RecordPool == {LostLakeSnohomish, LostLakeKing, ZedPond, ZedPondNowhere, ZedPondsKing}
\* a name of many words, each holding or held by a word of "lost lake"
LostLakeChain ==
  [official_name |-> <<"L","o","s","t"," ","L","a","k","e"," ","L","o","s"," ","O","s","t"," ",
                       "L","a","k"," ","A","k","e"," ","L","a","k","e","s"," ","L","o","s","t","s"," ",
                       "L","a","k","e","a"," ","L","a","k","e","b"," ","L","a","k","e","c"," ",
                       "L","a","k","e","d"," ","L","a","k","e","f">>,
   feature_type |-> "Lake", county_name |-> <<"K","i","n","g">>,
   latitude |-> PyFloat(FALSE, 47, 5), longitude |-> PyFloat(TRUE, 121, 8),
   alternative_names |-> <<>>]
Gazetteers ==
  UNION {[1..n -> RecordPool] : n \in 0..MaxRecords} \cup {<<LostLakeSnohomish, LostLakeChain>>}
\* an exact name, misspellings, an alternative name, a name far from every record,
\* a name with no token, a name carrying its county, the name with an override
QueryNames ==
  { <<"L","o","s","t"," ","L","k">>, <<"Z","e","d"," ","P","n","d">>,
    <<"D","e","v","i","l","s">>,
    <<"Z","z","z","y","x"," ","n","o","n","e","x","i","s","t","e","n","t"," ",
      "w","a","t","e","r","b","o","d","y">>,
    <<"-","-","-">>, <<"L","o","s","t"," ","L","k"," ","(","K","I","N","G",")">>,
    OverrideName }
QueryCounties == { None, Str(<<"K","i","n","g">>), Str(<<"Y","a","k","i","m","a">>) }
MatchInputs ==
  {[gnis |-> g, wdfw_name |-> n, county |-> c] :
     g \in Gazetteers, n \in QueryNames, c \in QueryCounties}

\* what match_lake_name hands to the matcher for the input
query_of(input) == normalize_name(Str(input.wdfw_name), input.county)
\* what load_gnis_database returns for the input's dataset
records_of(input) == load_records(input.gnis, <<>>)

InitMatch ==
  /\ Unused
  /\ fn_input \in MatchInputs
  /\ fn_output = <<>>

FindMatchingLake ==
  /\ fn_output = <<>>
  /\ fn_output' = <<[fn |-> "find_matching_lake",
                     value |-> find_matching_lake(records_of(fn_input), query_of(fn_input)),
                     best_match |-> best_match_of(records_of(fn_input), query_of(fn_input))]>>
  /\ UNCHANGED <<fn_input, resolver_vars>>

ManualOverrideCheck ==
  /\ fn_output = <<>>
  /\ fn_output' = <<[fn |-> "manual_override_check",
                     value |-> manual_override_check(SampleOverrides, fn_input.wdfw_name)]>>
  /\ UNCHANGED <<fn_input, resolver_vars>>

NextMatch == FindMatchingLake \/ ManualOverrideCheck

SpecMatch == InitMatch /\ [][NextMatch]_vars

-----------------------------------------------------------------------------
(* load_gnis_database, statement by statement, called by several threads   *)

Loaders == {"t1", "t2", "t3"}

\* the primary dataset names a record twice; the secondary repeats one of the primary
PrimaryDataset == <<LostLakeSnohomish, LostLakeKing, LostLakeSnohomish>>
SecondaryDataset == <<ZedPond, LostLakeKing>>
\* a primary dataset with a record that has no coordinates
Unlocated ==
  [official_name |-> <<"L","o","s","t"," ","L","a","k","e">>, feature_type |-> "Lake",
   county_name |-> <<"K","i","n","g">>, alternative_names |-> <<>>]
UnlocatedDataset == <<LostLakeSnohomish, Unlocated>>
\* line 61: record["official_name"], record["latitude"], record["longitude"] are there
has_key_fields(records) ==
  \A i \in DOMAIN records : {"official_name", "latitude", "longitude"} \subseteq DOMAIN records[i]

InitLoad ==
  /\ files \in [gnis : {no_file, corrupt_file, file_of(PrimaryDataset), file_of(UnlocatedDataset)},
                hydro : {no_file, corrupt_file, file_of(SecondaryDataset)},
                override : {no_file}]
  /\ LAKE_MATCH_CACHE_TABLE = ""
  /\ dynamodb = [k \in {} |-> None]
  /\ AtRest(Loaders)
  /\ fn_input = None
  /\ fn_output = <<>>

load_unchanged == <<LAKE_MATCH_CACHE_TABLE, dynamodb, overrides_memo, args, prev, io_failed, peer,
                    fn_input, fn_output>>

\* `with _lock:` left by a return or by an exception
Leave(t, outcome) ==
  /\ _lock' = "free"
  /\ pc' = [pc EXCEPT ![t] = "done"]
  /\ ret' = [ret EXCEPT ![t] = outcome]
  /\ locals' = [locals EXCEPT ![t] = no_locals]

\* a thread calls load_gnis_database()
LoadCall(t) ==
  /\ pc[t] \in {"idle", "done"}
  /\ calls < MaxCalls
  /\ calls' = calls + 1
  /\ pc' = [pc EXCEPT ![t] = "if_loaded"]
  /\ ret' = [ret EXCEPT ![t] = no_outcome]
  /\ UNCHANGED <<files, _records, _loaded, _lock, locals, loads, load_unchanged>>

\* lines 40-41: the check without the lock
IfLoaded(t) ==
  /\ pc[t] = "if_loaded"
  /\ IF _loaded
     THEN /\ pc' = [pc EXCEPT ![t] = "done"]
          /\ ret' = [ret EXCEPT ![t] = returned(_records)]
     ELSE /\ pc' = [pc EXCEPT ![t] = "acquire"]
          /\ UNCHANGED ret
  /\ UNCHANGED <<files, _records, _loaded, _lock, locals, calls, loads, load_unchanged>>

\* line 43: with _lock
Acquire(t) ==
  /\ pc[t] = "acquire"
  /\ _lock = "free"
  /\ _lock' = t
  /\ pc' = [pc EXCEPT ![t] = "if_loaded_locked"]
  /\ UNCHANGED <<files, _records, _loaded, locals, ret, calls, loads, load_unchanged>>

\* no second check under the lock
IfLoadedLockedUnchecked(t) ==
  /\ pc[t] = "if_loaded_locked"
  /\ pc' = [pc EXCEPT ![t] = "load_json"]
  /\ UNCHANGED <<_lock, ret, locals>>
  /\ UNCHANGED <<files, _records, _loaded, calls, loads, load_unchanged>>
\* lines 44-45: the check under the lock
IfLoadedLocked(t) ==
  /\ pc[t] = "if_loaded_locked"
  /\ IF _loaded
     THEN Leave(t, returned(_records))
     ELSE /\ pc' = [pc EXCEPT ![t] = "load_json"]
          /\ UNCHANGED <<_lock, ret, locals>>
  /\ UNCHANGED <<files, _records, _loaded, calls, loads, load_unchanged>>

\* line 47: _load_json of the primary dataset
LoadJson(t) ==
  /\ pc[t] = "load_json"
  /\ IF files.gnis.state = "ok"
     THEN /\ locals' = [locals EXCEPT ![t] = [gnis_records |-> files.gnis.json]]
          /\ loads' = [loads EXCEPT !.reads = @ + 1]
          /\ pc' = [pc EXCEPT ![t] = "hydrate"]
          /\ UNCHANGED <<_lock, ret>>
     ELSE /\ Leave(t, raised(IF files.gnis.state = "missing" THEN "FileNotFoundError"
                                                             ELSE "JSONDecodeError"))
          /\ loads' = [loads EXCEPT !.failed = @ + 1]
  /\ UNCHANGED <<files, _records, _loaded, calls, load_unchanged>>

\* the hydrated primary records are published before the secondary dataset is read
HydratePublishingEarly(t) ==
  /\ pc[t] = "hydrate"
  /\ IF files.hydro.state = "corrupt" \/ ~has_key_fields(locals[t].gnis_records)
     THEN /\ Leave(t, raised(IF files.hydro.state = "corrupt" THEN "JSONDecodeError" ELSE "KeyError"))
          /\ _records' = IF has_key_fields(locals[t].gnis_records)
                         THEN _hydrate(locals[t].gnis_records) ELSE <<>>
          /\ loads' = [loads EXCEPT !.hydrations = @ + 1, !.failed = @ + 1]
     ELSE /\ locals' = [locals EXCEPT ![t] =
               [deduped |-> load_records(locals[t].gnis_records, files.hydro.json)]]
          /\ loads' = [loads EXCEPT !.hydrations = @ + 1]
          /\ pc' = [pc EXCEPT ![t] = "publish_records"]
          /\ UNCHANGED <<_lock, ret, _records>>
  /\ UNCHANGED <<files, _loaded, calls, load_unchanged>>
\* lines 48-65: hydration, the secondary dataset when there is one, deduplication
Hydrate(t) ==
  /\ pc[t] = "hydrate"
  /\ IF files.hydro.state = "corrupt"
     THEN /\ Leave(t, raised("JSONDecodeError"))
          /\ loads' = [loads EXCEPT !.hydrations = @ + 1, !.failed = @ + 1]
     ELSE IF ~has_key_fields(locals[t].gnis_records)
     THEN \* line 61 raises KeyError inside `with _lock:`
          /\ Leave(t, raised("KeyError"))
          /\ loads' = [loads EXCEPT !.hydrations = @ + 1, !.failed = @ + 1]
     ELSE /\ locals' = [locals EXCEPT ![t] =
               [deduped |-> load_records(locals[t].gnis_records, files.hydro.json)]]
          /\ loads' = [loads EXCEPT !.hydrations = @ + 1]
          /\ pc' = [pc EXCEPT ![t] = "publish_records"]
          /\ UNCHANGED <<_lock, ret>>
  /\ UNCHANGED <<files, _records, _loaded, calls, load_unchanged>>

\* line 67: _records = deduped
PublishRecords(t) ==
  /\ pc[t] = "publish_records"
  /\ _records' = locals[t].deduped
  /\ pc' = [pc EXCEPT ![t] = "publish_loaded"]
  /\ UNCHANGED <<files, _loaded, _lock, locals, ret, calls, loads, load_unchanged>>

\* lines 68-69: _loaded = True; return _records
PublishLoaded(t) ==
  /\ pc[t] = "publish_loaded"
  /\ _loaded' = TRUE
  /\ Leave(t, returned(_records))
  /\ UNCHANGED <<files, _records, calls, loads, load_unchanged>>

\* the operator puts a missing or damaged primary dataset right
DatasetRestored ==
  /\ files.gnis.state # "ok"
  /\ files' = [files EXCEPT !.gnis = file_of(PrimaryDataset)]
  /\ UNCHANGED <<_records, _loaded, _lock, pc, locals, ret, calls, loads, load_unchanged>>

NextLoad ==
  \/ \E t \in Loaders :
       \/ LoadCall(t)
       \/ IfLoaded(t)
       \/ Acquire(t)
       \/ IfLoadedLocked(t)
       \/ LoadJson(t)
       \/ Hydrate(t)
       \/ PublishRecords(t)
       \/ PublishLoaded(t)
  \/ DatasetRestored

SpecLoad == InitLoad /\ [][NextLoad]_vars

-----------------------------------------------------------------------------
(* _levenshtein and _compute_token_score alone                             *)

\* characters of a string handed to _levenshtein
MaxLen == 3
\* tokens of a candidate name; a query has up to two
MaxTokens == 3
Letters == {"a", "b"}
ShortStrings == UNION {[1..n -> Letters] : n \in 0..MaxLen}
LevInputs == {[fn |-> "_levenshtein", a |-> a, b |-> b] : a, b \in ShortStrings}
\* a word, a word it holds, a word holding another, a word of two letters
TokenPool ==
  { <<"l","o","s","t">>, <<"l","o","s">>, <<"l","a","k","e">>, <<"l","a","k","e","s">>, <<"l","k">> }
TokenLists(longest) == UNION {[1..n -> TokenPool] : n \in 0..longest}
\* the query string is the query's tokens joined, as normalize_name returns them
ScoreInputs ==
  {[fn |-> "_compute_token_score", query_tokens |-> q, query_string |-> join(<<" ">>, q),
    candidate_tokens |-> c] : q \in TokenLists(2), c \in TokenLists(MaxTokens)}

InitScore ==
  /\ Unused
  /\ fn_input \in LevInputs \cup ScoreInputs
  /\ fn_output = <<>>

Levenshtein ==
  /\ fn_output = <<>>
  /\ fn_input.fn = "_levenshtein"
  /\ fn_output' = <<[fn |-> "_levenshtein", value |-> _levenshtein(fn_input.a, fn_input.b)]>>
  /\ UNCHANGED <<fn_input, resolver_vars>>

ComputeTokenScore ==
  /\ fn_output = <<>>
  /\ fn_input.fn = "_compute_token_score"
  /\ fn_output' = <<[fn |-> "_compute_token_score",
                     value |-> _compute_token_score(fn_input.query_tokens, fn_input.query_string,
                                                    fn_input.candidate_tokens)]>>
  /\ UNCHANGED <<fn_input, resolver_vars>>

NextScore == Levenshtein \/ ComputeTokenScore

SpecScore == InitScore /\ [][NextScore]_vars

-----------------------------------------------------------------------------
(* manual_override_check, statement by statement, called by several threads *)

\* a name with an override and a name without
OverrideNames == {OverrideName, <<"L","o","s","t"," ","L","k">>}

InitOverride ==
  /\ files \in [gnis : {no_file}, hydro : {no_file},
                override : {no_file, corrupt_file, file_of(SampleOverrides)}]
  /\ LAKE_MATCH_CACHE_TABLE = ""
  /\ dynamodb = [k \in {} |-> None]
  /\ AtRest(Loaders)
  /\ fn_input = None
  /\ fn_output = <<>>

override_unchanged == <<files, LAKE_MATCH_CACHE_TABLE, dynamodb, _records, _loaded, _lock, prev,
                        io_failed, peer, fn_input, fn_output>>

\* a thread calls manual_override_check(wdfw_name)
OverrideCall(t, wdfw_name) ==
  /\ pc[t] \in {"idle", "done"}
  /\ calls < MaxCalls
  /\ calls' = calls + 1
  /\ args' = [args EXCEPT ![t] = [wdfw_name |-> wdfw_name, county |-> None]]
  /\ pc' = [pc EXCEPT ![t] = "lru_lookup"]
  /\ ret' = [ret EXCEPT ![t] = no_outcome]
  /\ locals' = [locals EXCEPT ![t] = no_locals]
  /\ UNCHANGED <<overrides_memo, loads, override_unchanged>>

\* line 8, @lru_cache(maxsize=1): the stored result if there is one, else the function is
\* called; the cache takes no lock around the call
LruLookup(t) ==
  /\ pc[t] = "lru_lookup"
  /\ IF overrides_memo # <<>>
     THEN /\ locals' = [locals EXCEPT ![t] = [overrides |-> overrides_memo[1]]]
          /\ pc' = [pc EXCEPT ![t] = "get"]
     ELSE /\ pc' = [pc EXCEPT ![t] = "open"]
          /\ UNCHANGED locals
  /\ UNCHANGED <<overrides_memo, args, ret, calls, loads, override_unchanged>>

\* lines 14-18: open and json.load; FileNotFoundError gives {}, any other error is raised
OpenOverrides(t) ==
  /\ pc[t] = "open"
  /\ IF files.override.state = "corrupt"
     THEN /\ pc' = [pc EXCEPT ![t] = "done"]
          /\ ret' = [ret EXCEPT ![t] = raised("JSONDecodeError")]
          /\ loads' = [loads EXCEPT !.reads = @ + 1, !.failed = @ + 1]
          /\ UNCHANGED locals
     ELSE /\ locals' = [locals EXCEPT ![t] = [overrides |-> read_overrides(files.override)]]
          /\ loads' = IF files.override.state = "ok" THEN [loads EXCEPT !.reads = @ + 1] ELSE loads
          /\ pc' = [pc EXCEPT ![t] = "lru_store"]
          /\ UNCHANGED ret
  /\ UNCHANGED <<overrides_memo, args, calls, override_unchanged>>

\* line 8: the cache keeps the result of the call that has returned
LruStore(t) ==
  /\ pc[t] = "lru_store"
  /\ overrides_memo' = <<locals[t].overrides>>
  /\ pc' = [pc EXCEPT ![t] = "get"]
  /\ UNCHANGED <<locals, args, ret, calls, loads, override_unchanged>>

\* lines 22-32: overrides.get(wdfw_name) and the result
OverrideGet(t) ==
  /\ pc[t] = "get"
  /\ ret' = [ret EXCEPT ![t] = returned(manual_override_check(locals[t].overrides, args[t].wdfw_name))]
  /\ pc' = [pc EXCEPT ![t] = "done"]
  /\ UNCHANGED <<overrides_memo, locals, args, calls, loads, override_unchanged>>

NextOverride ==
  \E t \in Loaders :
    \/ \E wdfw_name \in OverrideNames : OverrideCall(t, wdfw_name)
    \/ LruLookup(t)
    \/ OpenOverrides(t)
    \/ LruStore(t)
    \/ OverrideGet(t)

SpecOverride == InitOverride /\ [][NextOverride]_vars

-----------------------------------------------------------------------------
(* match_lake_name with names and counties that meet in one cache key      *)

\* a name holding '|' and what follows it given as the county of the shorter name; 'Kin' is
\* no county of the table and is held by 'King'
KeyArgChoices ==
  { [wdfw_name |-> Str(<<"L","o","s","t"," ","L","k","|","k","i","n">>), county |-> None],
    [wdfw_name |-> Str(<<"L","o","s","t"," ","L","k">>), county |-> Str(<<"K","i","n">>)],
    [wdfw_name |-> Str(<<"L","o","s","t"," ","L","k">>), county |-> None],
    [wdfw_name |-> Str(<<"L","o","s","t"," ","L","k">>), county |-> Str(<<"K","i","n","g">>)] }

\* one deployment: the sample gazetteer, the override file, an empty cache table
InitKeys ==
  /\ files = [gnis |-> file_of(SampleGnis), hydro |-> no_file, override |-> file_of(SampleOverrides)]
  /\ LAKE_MATCH_CACHE_TABLE = "lake-match-cache"
  /\ dynamodb = [k \in {} |-> None]
  /\ AtRest(Threads)
  /\ fn_input = None
  /\ fn_output = <<>>

NextKeys ==
  \E t \in Threads :
    \/ \E a \in KeyArgChoices : Call(t, a.wdfw_name, a.county)
    \/ CheckCache(t)
    \/ CheckCacheBare(t)
    \/ Find(t)
    \/ WriteCache(t)

SpecKeys == InitKeys /\ [][NextKeys]_vars

-----------------------------------------------------------------------------
(* Properties                                                              *)

\* a * b in two limbs of eight decimal digits, for a and b below 10^9, by long
\* multiplication in base 10^4
middle_product(a, b) == (a \div 10000) * (b % 10000) + (a % 10000) * (b \div 10000)
low_sum(a, b) == (middle_product(a, b) % 10000) * 10000 + (a % 10000) * (b % 10000)
product(a, b) ==
  <<(a \div 10000) * (b \div 10000) + middle_product(a, b) \div 10000 + low_sum(a, b) \div 100000000,
    low_sum(a, b) % 100000000>>
\* x is the int 2^53 - 1
IsMaxSafeInteger(x) ==
  /\ x.type = "int" /\ ~x.neg /\ x.tenths = 0
  /\ x.hi = product(2^26, 2^27)[1]
  /\ x.lo = product(2^26, 2^27)[2] - 1
\* the value of an int below 10^8
int_value(x) == IF x.neg THEN -x.lo ELSE x.lo
\* the four fields of the answer are equal as Python values
SameAnswer(a, b) ==
  /\ PyEq(a.officialName, b.officialName)
  /\ PyEq(a.lat, b.lat)
  /\ PyEq(a.lng, b.lng)
  /\ PyEq(a.matched_score, b.matched_score)
\* the entry of the override file under the name, when the file has one
HasOverride(name) ==
  files.override.state = "ok" /\ \E i \in DOMAIN files.override.json : files.override.json[i][1] = name
OverrideOf(name) ==
  files.override.json[CHOOSE i \in DOMAIN files.override.json : files.override.json[i][1] = name][2]

\* C1: a finished call whose trimmed name is a key of the override table has returned that
\* entry's official_name, lat and lng with source manual_override and matched_score
\* 2^53 - 1, whatever the gazetteer file and the cache table hold.
OverridePrecedence ==
  \A t \in Threads :
    (/\ pc[t] = "done"
     /\ args[t].wdfw_name \in ValidNames
     /\ HasOverride(strip(args[t].wdfw_name.s)))
    => /\ ret[t].kind = "return"
       /\ ret[t].value.officialName = OverrideOf(strip(args[t].wdfw_name.s)).official_name
       /\ ret[t].value.lat = OverrideOf(strip(args[t].wdfw_name.s)).lat
       /\ ret[t].value.lng = OverrideOf(strip(args[t].wdfw_name.s)).lng
       /\ ret[t].value.source = "manual_override"
       /\ IsMaxSafeInteger(ret[t].value.matched_score)
       /\ DOMAIN ret[t].value = {"officialName", "lat", "lng", "matched_score", "source"}

\* an override answered with a county, over a loaded gazetteer and a cache entry under its name
OverridePrecedenceWitness ==
  \E t \in Threads :
    /\ pc[t] = "done"
    /\ args[t] = [wdfw_name |-> Str(<<" ","P","D","-","S"," ">>), county |-> Str(<<"K","i","n","g">>)]
    /\ ret[t].kind = "return"
    /\ ret[t].value.source = "manual_override"
    /\ _loaded /\ _records # <<>>
    /\ OverrideName \in DOMAIN dynamodb

\* C2: with the cache enabled and answering, a call that repeats the thread's previous call,
\* which returned a matcher result M and stored it, returns source cache with officialName,
\* lat, lng and matched_score equal to M's.
CacheTransparency ==
  \A t \in Threads :
    (/\ pc[t] = "done"
     /\ prev[t] # None
     /\ prev[t].stage = "again"
     /\ "read" \notin io_failed[t])
    => /\ ret[t].kind = "return"
       /\ ret[t].value.source = "cache"
       /\ SameAnswer(ret[t].value, prev[t].value)

\* a repeated call answered from the cache, the score an int the first time and a float now
CacheTransparencyWitness ==
  \E t \in Threads :
    /\ pc[t] = "done"
    /\ prev[t] # None
    /\ prev[t].stage = "again"
    /\ prev[t].value.source = "algorithm"
    /\ prev[t].value.matched_score.type = "int"
    /\ ret[t].kind = "return"
    /\ ret[t].value.source = "cache"
    /\ ret[t].value.matched_score.type = "float"
    /\ Truthy(args[t].county)

\* C3: over a non-empty gazetteer and a readable override file, a finished call with a name
\* that is not empty after trimming has returned a result whose officialName is not None,
\* with or without a county.
FuzzyFloor ==
  \A t \in Threads :
    (/\ pc[t] = "done"
     /\ args[t].wdfw_name \in ValidNames
     /\ files.override.state # "corrupt"
     /\ files.gnis.state = "ok"
     /\ files.gnis.json # <<>>)
    => /\ ret[t].kind = "return"
       /\ ret[t].value.officialName # None

\* a name no King county record's tokens answer: the fuzzy strategy names a record
FuzzyFloorWitness ==
  \E t \in Threads :
    /\ pc[t] = "done"
    /\ args[t] = [wdfw_name |-> Str(<<"Z","e","d"," ","P","n","d">>), county |-> Str(<<"K","i","n","g">>)]
    /\ ret[t].kind = "return"
    /\ ret[t].value.source = "algorithm"
    /\ "strategy" \in DOMAIN ret[t].value
    /\ ret[t].value.strategy = "fuzzy"
    /\ ret[t].value.officialName # None

\* the call of find_matching_lake, once made
MatcherCalled == fn_output # <<>> /\ fn_output[1].fn = "find_matching_lake"
\* the county hints the hint-bearing record's county_name contains
CountyContains(record, county_hint) == contains(lower(county_hint.s), lower(record.county_name))
\* the record of the gazetteer a result names
ChosenRecords(result) ==
  {i \in DOMAIN records_of(fn_input) :
     /\ Str(records_of(fn_input)[i].official_name) = result.officialName
     /\ records_of(fn_input)[i].latitude = result.lat
     /\ records_of(fn_input)[i].longitude = result.lng}
\* the query has a county hint that some record's county_name contains
NarrowingApplies ==
  /\ MatcherCalled
  /\ Truthy(query_of(fn_input).countyHint)
  /\ \E i \in DOMAIN records_of(fn_input) :
       CountyContains(records_of(fn_input)[i], query_of(fn_input).countyHint)

\* C4, as stated: whenever narrowing by the county hint leaves a record, the chosen record's
\* county_name contains the hint.
CountyNarrowingMonotonicity ==
  NarrowingApplies =>
    \A i \in ChosenRecords(fn_output[1].value) :
      CountyContains(records_of(fn_input)[i], query_of(fn_input).countyHint)

\* C4, amended: whenever narrowing by the county hint leaves a record and the result's
\* strategy is token, the chosen record's county_name contains the hint.
CountyNarrowingOfTokenStrategy ==
  (NarrowingApplies /\ fn_output[1].value.strategy = "token") =>
    /\ CountyContains(fn_output[1].value, query_of(fn_input).countyHint)
    /\ ChosenRecords(fn_output[1].value) # {}
    /\ \A i \in ChosenRecords(fn_output[1].value) :
         CountyContains(records_of(fn_input)[i], query_of(fn_input).countyHint)

\* the token strategy chose a record of the county although a record outside it has a
\* name nearer to the query
CountyNarrowingWitness ==
  /\ NarrowingApplies
  /\ fn_output[1].value.strategy = "token"
  /\ fn_output[1].value.officialName = Str(ZedPondsKing.official_name)
  /\ \E i \in DOMAIN fn_input.gnis : fn_input.gnis[i] = ZedPond
  /\ fn_input.wdfw_name = <<"Z","e","d"," ","P","n","d">>

\* C5: a token result's matched_score is at least MIN_TOKEN_SCORE and at most
\* 3*|C| + |C| + 2 for the winning candidate's token vector C; a fuzzy result's is between
\* 1 and 20; a manual-override result's is 2^53 - 1.
ScoreBounds ==
  fn_output # <<>> =>
    IF fn_output[1].fn = "manual_override_check"
    THEN fn_output[1].value # None => IsMaxSafeInteger(fn_output[1].value.matched_score)
    ELSE fn_output[1].value # None =>
           /\ fn_output[1].value.matched_score.type = "int"
           /\ IF fn_output[1].value.strategy = "token"
              THEN /\ MIN_TOKEN_SCORE <= int_value(fn_output[1].value.matched_score)
                   /\ int_value(fn_output[1].value.matched_score)
                        <= 3 * Len(fn_output[1].best_match[1].tokens)
                           + Len(fn_output[1].best_match[1].tokens) + 2
              ELSE /\ fn_output[1].value.strategy = "fuzzy"
                   /\ 1 <= int_value(fn_output[1].value.matched_score)
                   /\ int_value(fn_output[1].value.matched_score) <= 20

\* a query further than 19 edits from every record gets the lowest fuzzy score
ScoreBoundsWitness ==
  /\ MatcherCalled
  /\ fn_output[1].value # None
  /\ fn_output[1].value.strategy = "fuzzy"
  /\ int_value(fn_output[1].value.matched_score) = 1
  /\ Len(query_of(fn_input).normalized) > 20

\* C6: normalize_name applied to the normalized string of its own result gives the same
\* normalized string and the same tokens.
NormalizationIdempotence ==
  Len(fn_output) = 2 =>
    /\ fn_output[2].normalized = fn_output[1].normalized
    /\ fn_output[2].tokens = fn_output[1].tokens

\* a county code whose expansion repeats a word of the name, normalized twice
NormalizationIdempotenceWitness ==
  /\ Len(fn_output) = 2
  /\ fn_input.raw_name = Str(<<"o","r","e","i","l","l","e"," ","P","E","N","D"," ","L","k">>)
  /\ fn_output[1].tokens = << <<"o","r","e","i","l","l","e">>, <<"p","e","n","d">>, <<"l","a","k","e">> >>
  /\ fn_output[2].tokens = fn_output[1].tokens

\* the position of a token's first occurrence in a stream
FirstIndex(token, stream) == CHOOSE i \in DOMAIN stream : stream[i] = token /\ \A j \in 1..(i - 1) : stream[j] # token

\* C7: the tokens of normalize_name(s) hold no token twice, are the tokens of the expanded
\* stream in the order of their first occurrence, and normalized is those tokens joined by
\* single spaces.
DedupStability ==
  (fn_output # <<>> /\ isinstance_str(fn_input.raw_name)) =>
    LET tokens == fn_output[1].tokens
        stream == expanded_tokens(fn_input.raw_name.s)
    IN  /\ \A i, j \in DOMAIN tokens : i # j => tokens[i] # tokens[j]
        /\ Range(tokens) = Range(stream) \ {<<>>}
        /\ \A i, j \in DOMAIN tokens :
             i < j => FirstIndex(tokens[i], stream) < FirstIndex(tokens[j], stream)
        /\ fn_output[1].normalized = join(<<" ">>, tokens)
        /\ ~contains(<<" ", " ">>, fn_output[1].normalized)

\* a stream that repeats a token apart and side by side
DedupStabilityWitness ==
  /\ fn_output # <<>>
  /\ fn_input.raw_name = Str(<<"l","a","k","e"," ","W","A","L","L"," ","L","k">>)
  /\ expanded_tokens(fn_input.raw_name.s)
       = << <<"l","a","k","e">>, <<"w","a","l","l","a">>, <<"w","a","l","l","a">>, <<"l","a","k","e">> >>
  /\ fn_output[1].normalized = <<"l","a","k","e"," ","w","a","l","l","a">>

\* C8: a call whose wdfw_name is missing, not a string, empty or blank ends with ValueError
\* at once, and the override table, the cache and the gazetteer are as they were.
InputValidation ==
  [][\A t \in Threads : \A a \in ArgChoices :
       (a.wdfw_name \in InvalidNames /\ Call(t, a.wdfw_name, a.county))
       => /\ pc'[t] = "done"
          /\ ret'[t] = raised("ValueError")
          /\ UNCHANGED <<files, LAKE_MATCH_CACHE_TABLE, dynamodb, _records, _loaded, _lock,
                         overrides_memo, loads>>]_vars

\* a blank name refused by a resolver that has its override table, its gazetteer and a
\* cache entry
InputValidationWitness ==
  \E t \in Threads :
    /\ pc[t] = "done"
    /\ args[t].wdfw_name = Str(<<" ", " ">>)
    /\ ret[t] = raised("ValueError")
    /\ overrides_memo # <<>>
    /\ _loaded
    /\ DOMAIN dynamodb # {}

\* two calls of two threads with the same arguments that overlapped, both returned, no
\* cache operation of either having raised
OverlappedTwins(t, u) ==
  /\ t # u
  /\ pc[t] = "done" /\ pc[u] = "done"
  /\ peer[t] /\ peer[u]
  /\ args[t] = args[u]
  /\ ret[t].kind = "return" /\ ret[u].kind = "return"
  /\ io_failed[t] = {} /\ io_failed[u] = {}

\* C9, as stated: two overlapping calls with the same name and county return results equal
\* in every field.
ConcurrentCallsAgree ==
  \A t, u \in Threads : OverlappedTwins(t, u) => ret[t].value = ret[u].value

\* two overlapping calls with the same name and county name the same place
ConcurrentCallsAgreeOnPlace ==
  \A t, u \in Threads :
    OverlappedTwins(t, u) =>
      /\ PyEq(ret[t].value.officialName, ret[u].value.officialName)
      /\ PyEq(ret[t].value.lat, ret[u].value.lat)
      /\ PyEq(ret[t].value.lng, ret[u].value.lng)

\* C10: while no load attempt fails after the primary dataset was read (on the secondary
\* dataset, or on a record without its key fields), the primary dataset is read and hydrated
\* at most once, exactly once when the load has completed; every call that has returned,
\* first or later, returned the one published list.
SingleLoad ==
  /\ (files.hydro.state # "corrupt" /\ has_key_fields(files.gnis.json)) =>
       (loads.reads <= 1 /\ loads.hydrations <= 1)
  /\ _loaded => loads.reads = 1 /\ loads.hydrations = 1
  /\ \A t \in Loaders :
       (pc[t] = "done" /\ ret[t].kind = "return") => _loaded /\ ret[t].value = _records

\* a thread that passed the first check before the load completed holds the lock after it,
\* and another thread has returned the published list
SingleLoadWitness ==
  \E t, u \in Loaders :
    /\ pc[u] = "if_loaded_locked"
    /\ _loaded
    /\ pc[t] = "done"
    /\ ret[t] = returned(_records)
    /\ _records # <<>>
    /\ loads.reads = 1

\* C11, as stated: a call of match_lake_name that raised had an invalid name (ValueError) or
\* a gazetteer dataset that is missing (FileNotFoundError) or malformed (JSONDecodeError);
\* nothing else reaches the caller as an exception.
OnlyInputAndDatasetErrors ==
  \A t \in Threads :
    (pc[t] = "done" /\ ret[t].kind = "raise") =>
      \/ ret[t].exc = "ValueError" /\ args[t].wdfw_name \in InvalidNames
      \/ ret[t].exc = "FileNotFoundError" /\ files.gnis.state = "missing"
      \/ ret[t].exc = "JSONDecodeError" /\ files.gnis.state = "corrupt"

\* the query match_lake_name hands to the matcher for the call's arguments
CallQuery(t) == normalize_name_of(strip(args[t].wdfw_name.s), args[t].county)
\* what find_matching_lake computes for that query over the gazetteer on file
LiveMatch(t) ==
  find_matching_lake_of(load_records_of(files.gnis.json, files.hydro.json), CallQuery(t))
\* the result carries the matcher's name, place, score and strategy
SameMatch(result, live) ==
  IF live = None THEN result = null_result
  ELSE /\ result.officialName = live.officialName
       /\ result.lat = live.lat
       /\ result.lng = live.lng
       /\ result.matched_score = live.matched_score
       /\ "strategy" \in DOMAIN result
       /\ result.strategy = live.strategy
\* a finished call with a valid name that no override answers, over a readable gazetteer
MatcherCall(t) ==
  /\ pc[t] = "done"
  /\ args[t].wdfw_name \in ValidNames
  /\ files.override.state # "corrupt"
  /\ ~HasOverride(strip(args[t].wdfw_name.s))
  /\ files.gnis.state = "ok"
\* every cache read the call makes raised
AllReadsFailed(t) ==
  /\ "read" \in io_failed[t]
  /\ Truthy(CallQuery(t).countyHint) => "read_bare" \in io_failed[t]

\* C12, as stated: when the cache is disabled or some cache read or write of the call
\* failed, the call returns what find_matching_lake computes for its normalized query.
CacheDegradation ==
  \A t \in Threads :
    (MatcherCall(t) /\ (LAKE_MATCH_CACHE_TABLE = "" \/ io_failed[t] # {})) =>
      ret[t].kind = "return" /\ SameMatch(ret[t].value, LiveMatch(t))

\* C12, amended: when the cache is disabled, or every cache read of the call failed, or its
\* cache write failed, the call returns what find_matching_lake computes for its normalized
\* query.
CacheDegradationToLiveMatch ==
  \A t \in Threads :
    (MatcherCall(t) /\ (\/ LAKE_MATCH_CACHE_TABLE = ""
                        \/ AllReadsFailed(t)
                        \/ "write" \in io_failed[t])) =>
      ret[t].kind = "return" /\ SameMatch(ret[t].value, LiveMatch(t))

\* both reads and the write of a call raised while the table holds an entry under its key,
\* and the call returned the matcher's token result
CacheDegradationWitness ==
  \E t \in Threads :
    /\ MatcherCall(t)
    /\ io_failed[t] = {"read", "read_bare", "write"}
    /\ _build_cache_key(strip(args[t].wdfw_name.s), CallQuery(t).countyHint) \in DOMAIN dynamodb
    /\ ret[t].kind = "return"
    /\ ret[t].value.source = "algorithm"
    /\ ret[t].value.strategy = "token"

\* officialName, lat and lng are None, matched_score is 0 and source is algorithm
IsNullResult(result) ==
  /\ result.officialName = None /\ result.lat = None /\ result.lng = None
  /\ PyEq(result.matched_score, PyInt(0))
  /\ result.source = "algorithm"

\* C13: a call with no override entry and no cache hit returns the null result if and only
\* if the loaded gazetteer is empty.
NullResultIffEmptyGazetteer ==
  \A t \in Threads :
    (MatcherCall(t) /\ ret[t].kind = "return" /\ ret[t].value.source # "cache") =>
      /\ _loaded
      /\ IsNullResult(ret[t].value) <=> _records = <<>>
      /\ ret[t].value.officialName = None <=> _records = <<>>

\* the null result returned over an empty gazetteer, the cache configured and left empty
NullResultWitness ==
  \E t \in Threads :
    /\ MatcherCall(t)
    /\ ret[t].kind = "return"
    /\ IsNullResult(ret[t].value)
    /\ "strategy" \notin DOMAIN ret[t].value
    /\ _loaded /\ _records = <<>>
    /\ LAKE_MATCH_CACHE_TABLE # "" /\ DOMAIN dynamodb = {}
    /\ io_failed[t] = {}

\* the token vectors of the record's names that equal the query's tokens
IsExactRecord(record) ==
  \E k \in DOMAIN token_sets_of(record) : token_sets_of(record)[k] = query_of(fn_input).tokens
\* the positions of the gazetteer's records with such a name
ExactRecords == {i \in DOMAIN records_of(fn_input) : IsExactRecord(records_of(fn_input)[i])}
\* the first of them in traversal order
FirstExactRecord == records_of(fn_input)[CHOOSE i \in ExactRecords : \A j \in ExactRecords : i <= j]
\* the query has tokens and no county hint, and a record's name has exactly its tokens
ExactNameApplies ==
  /\ MatcherCalled
  /\ ~Truthy(query_of(fn_input).countyHint)
  /\ query_of(fn_input).tokens # <<>>
  /\ ExactRecords # {}
\* the token result for the first record with the query's tokens, scored 3 per token
IsExactNameResult(result) ==
  /\ result # None
  /\ result.source = "algorithm"
  /\ result.strategy = "token"
  /\ result.matched_score = PyInt(3 * Len(query_of(fn_input).tokens))
  /\ result.officialName = Str(FirstExactRecord.official_name)
  /\ result.lat = FirstExactRecord.latitude
  /\ result.lng = FirstExactRecord.longitude
\* the score of a name with other tokens than the query's reaches that of an exact name
OutscoredByInexact ==
  \E i \in DOMAIN records_of(fn_input) :
    \E k \in DOMAIN token_sets_of(records_of(fn_input)[i]) :
      /\ token_sets_of(records_of(fn_input)[i])[k] # query_of(fn_input).tokens
      /\ token_total(records_of(fn_input)[i], query_of(fn_input).tokens,
                     query_of(fn_input).normalized, None,
                     token_sets_of(records_of(fn_input)[i])[k])
           >= 3 * Len(query_of(fn_input).tokens)

\* C14, as stated: with no county hint, when a record has an official or alternative name
\* whose tokens equal the query's, the result is the token match of the first such record
\* with matched_score 3 * (number of query tokens); no other candidate scores higher.
ExactNameMatch == ExactNameApplies => IsExactNameResult(fn_output[1].value)

\* C14, amended: the same, provided no name with other tokens scores 3 * (number of query
\* tokens) or more.
ExactNameMatchUnlessOutscored ==
  (ExactNameApplies /\ ~OutscoredByInexact) => IsExactNameResult(fn_output[1].value)

\* two records carry the query's name; the first in traversal order is returned
ExactNameWitness ==
  /\ ExactNameApplies
  /\ ~OutscoredByInexact
  /\ Cardinality(ExactRecords) = 2
  /\ fn_input.gnis = <<LostLakeKing, LostLakeSnohomish>>
  /\ fn_output[1].value.lat = LostLakeKing.latitude
  /\ fn_output[1].value.matched_score = PyInt(6)

\* the result carries a strategy field
HasStrategy(result) == "strategy" \in DOMAIN result
\* the results of the calls that have returned
ReturnedResults == {ret[t].value : t \in {u \in Threads : pc[u] = "done" /\ ret[u].kind = "return"}}

\* C15, as stated: in every result match_lake_name returns, strategy is present with value
\* token or fuzzy exactly when source = algorithm, and absent for manual_override and cache.
StrategyIffAlgorithm ==
  \A result \in ReturnedResults :
    /\ HasStrategy(result) <=> result.source = "algorithm"
    /\ HasStrategy(result) => result.strategy \in {"token", "fuzzy"}

\* C15, amended: strategy is present with value token or fuzzy exactly when source =
\* algorithm and the result is not the null result; the null result, override results and
\* cache results carry no strategy.
StrategyIffAlgorithmicMatch ==
  \A result \in ReturnedResults :
    /\ result.source \in {"algorithm", "manual_override", "cache"}
    /\ HasStrategy(result) <=> (result.source = "algorithm" /\ ~IsNullResult(result))
    /\ HasStrategy(result) => result.strategy \in {"token", "fuzzy"}

\* one call has returned a fuzzy match and another a cached item without strategy
StrategyWitness ==
  \E t, u \in Threads :
    /\ pc[t] = "done" /\ ret[t].kind = "return"
    /\ pc[u] = "done" /\ ret[u].kind = "return"
    /\ ret[t].value.source = "algorithm" /\ HasStrategy(ret[t].value)
    /\ ret[t].value.strategy = "fuzzy"
    /\ ret[u].value.source = "cache" /\ ~HasStrategy(ret[u].value)

\* the call of thread t ends with an exception in this step
LoadFails(t) == ret[t].kind # "raise" /\ ret'[t].kind = "raise"
\* a failing load leaves the store unloaded and empty and the lock free
FailureStep ==
  \A t \in Loaders :
    LoadFails(t) =>
      /\ ~_loaded /\ ~_loaded'
      /\ _records = <<>> /\ _records' = <<>>
      /\ _lock = t /\ _lock' = "free"
\* the list a load of the present dataset files builds
CompleteList == load_records(files.gnis.json, files.hydro.json)
\* a loaded store, and every list a call has returned, is the complete list
LoadedIsComplete ==
  /\ _loaded => _records = CompleteList
  /\ \A t \in Loaders : ret[t].kind = "return" => (_loaded /\ ret[t].value = CompleteList)
  /\ \A t \in Loaders : (pc[t] = "done" /\ ret[t].kind = "raise") => _lock # t

\* C16: a failed gazetteer load publishes nothing: the store stays unloaded with no records
\* visible and its lock released, so the next call retries and can succeed; a caller that
\* observes the store as loaded sees the complete deduplicated list.
FailedLoadPublishesNothing == [][FailureStep]_vars /\ []LoadedIsComplete

\* after a failed load the dataset was put right; a later call loaded and returned the
\* list while the failed call's exception is still on record
RetryWitness ==
  \E t, u \in Loaders :
    /\ pc[t] = "done" /\ ret[t].kind = "raise"
    /\ pc[u] = "done" /\ ret[u].kind = "return"
    /\ loads.failed >= 1
    /\ _loaded /\ _lock = "free"
    /\ ret[u].value = CompleteList /\ Len(ret[u].value) = 3

\* the records of the primary dataset followed by those of the secondary
Concatenation == files.gnis.json \o files.hydro.json
\* two records with the same (official_name, latitude, longitude)
SameKey(a, b) ==
  /\ a.official_name = b.official_name
  /\ PyEq(a.latitude, b.latitude)
  /\ PyEq(a.longitude, b.longitude)
\* the positions of the concatenation that no earlier position duplicates
FirstOccurrences ==
  {i \in DOMAIN Concatenation : \A j \in 1..(i - 1) : ~SameKey(Concatenation[j], Concatenation[i])}
\* the k-th of them
KthFirstOccurrence(k) ==
  CHOOSE i \in FirstOccurrences : Cardinality({j \in FirstOccurrences : j <= i}) = k

\* C17: the published gazetteer list never holds two records with the same (official_name,
\* latitude, longitude); of each group of duplicates across primary-then-secondary the first
\* occurrence is kept, and the kept records are in the order of the concatenation.
PublishedListIsDeduplicated ==
  _loaded =>
    /\ \A i, j \in DOMAIN _records : SameKey(_records[i], _records[j]) => i = j
    /\ Len(_records) = Cardinality(FirstOccurrences)
    /\ \A k \in DOMAIN _records :
         /\ SameKey(_records[k], Concatenation[KthFirstOccurrence(k)])
         /\ _records[k].county_name = Concatenation[KthFirstOccurrence(k)].county_name

\* both datasets were read: five records, two of them duplicates, three published
DeduplicationWitness ==
  /\ _loaded
  /\ Len(Concatenation) = 5
  /\ FirstOccurrences = {1, 2, 4}
  /\ Len(_records) = 3

\* C18: normalize_name called with a raw_name that is not a string fails with InvalidInput;
\* it does not return a NormalizedQuery.
NonStringRejected ==
  (fn_output # <<>> /\ ~isinstance_str(fn_input.raw_name)) =>
    /\ "normalized" \notin DOMAIN fn_output[1]
    /\ fn_output[1] = raised("InvalidInput")

\* the raw name in upper case
UpperName == upper(fn_input.raw_name.s)
\* position i of the name opens the parenthesised code of the k-th county
IsParenCode(i, k) ==
  /\ Len(COUNTY_ABBREVIATIONS[k][1]) \in 3..5
  /\ i + Len(COUNTY_ABBREVIATIONS[k][1]) + 1 <= Len(UpperName)
  /\ UpperName[i] = "("
  /\ SubSeq(UpperName, i + 1, i + Len(COUNTY_ABBREVIATIONS[k][1])) = COUNTY_ABBREVIATIONS[k][1]
  /\ UpperName[i + Len(COUNTY_ABBREVIATIONS[k][1]) + 1] = ")"
ParenCodePositions == {i \in DOMAIN UpperName : \E k \in DOMAIN COUNTY_ABBREVIATIONS : IsParenCode(i, k)}
FirstParenCounty ==
  LET i == CHOOSE i \in ParenCodePositions : \A j \in ParenCodePositions : i <= j
  IN  COUNTY_ABBREVIATIONS[CHOOSE k \in DOMAIN COUNTY_ABBREVIATIONS : IsParenCode(i, k)][2]
\* the counties whose code is followed by " CO" (and so also those followed by " COUNTY")
CodeCoCounties ==
  {k \in DOMAIN COUNTY_ABBREVIATIONS : contains(COUNTY_ABBREVIATIONS[k][1] \o <<" ","C","O">>, UpperName)}
\* the counties whose full name occurs in the name
NamedCounties ==
  {k \in DOMAIN COUNTY_ABBREVIATIONS : contains(upper(COUNTY_ABBREVIATIONS[k][2]), UpperName)}
\* the first county of a set, in the order of the table
FirstCounty(counties) == COUNTY_ABBREVIATIONS[CHOOSE k \in counties : \A j \in counties : k <= j][2]
\* the hint the name alone gives
DetectedHint ==
  IF ParenCodePositions # {} THEN Str(FirstParenCounty)
  ELSE IF CodeCoCounties # {} THEN Str(FirstCounty(CodeCoCounties))
  ELSE IF NamedCounties # {} THEN Str(FirstCounty(NamedCounties))
  ELSE None
\* an explicit county that is present and not empty
ExplicitCountyGiven == fn_input.explicit_county # None /\ fn_input.explicit_county.s # <<>>

\* C19: a present, non-empty explicit_county always determines the hint, overriding anything
\* detected in the name (an empty normalized county is an absent hint); otherwise the hint is
\* the county of the first recognized parenthesised code, otherwise of a '<CODE> CO' or
\* '<CODE> COUNTY' substring, otherwise of a full county name in the name, otherwise absent.
CountyHintPrecedence ==
  (fn_output # <<>> /\ isinstance_str(fn_input.raw_name)) =>
    fn_output[1].countyHint =
      IF ExplicitCountyGiven THEN _normalize_county_input(fn_input.explicit_county)
      ELSE DetectedHint

\* the trimmed name of thread t's call
TrimmedName(t) == strip(args[t].wdfw_name.s)
\* the trimmed name, plus '|' and the county hint when the query has one
CompositeKey(t) ==
  IF CallQuery(t).countyHint # None /\ CallQuery(t).countyHint.s # <<>>
  THEN TrimmedName(t) \o <<"|">> \o CallQuery(t).countyHint.s
  ELSE TrimmedName(t)
\* the read of this step at the key gave nothing: no table, a failing backend or no item
ReadMissed(t, key, label) ==
  LAKE_MATCH_CACHE_TABLE = "" \/ label \in io_failed'[t] \/ key \notin DOMAIN dynamodb
\* a step that changes the table is the write of a call's matcher result at its composite key
CacheWriteStep ==
  dynamodb' # dynamodb =>
    \E t \in Threads :
      /\ pc[t] = "write_cache" /\ pc'[t] = "done"
      /\ ~HasOverride(TrimmedName(t))
      /\ ret'[t].kind = "return"
      /\ ret'[t].value.source = "algorithm"
      /\ ~IsNullResult(ret'[t].value)
      /\ DOMAIN dynamodb' = DOMAIN dynamodb \cup {CompositeKey(t)}
      /\ \A k \in DOMAIN dynamodb \ {CompositeKey(t)} : dynamodb'[k] = dynamodb[k]
      /\ dynamodb'[CompositeKey(t)].official_name.S = ret'[t].value.officialName.s
\* a call comes to its write only by way of an override miss, cache misses and a match
WritePathStep ==
  \A t \in Threads :
    /\ (pc'[t] = "write_cache" /\ pc[t] # "write_cache") =>
         (pc[t] = "find" /\ locals'[t].result # None)
    /\ (pc'[t] = "find" /\ pc[t] # "find") =>
         \/ /\ pc[t] = "check_cache"
            /\ ~Truthy(CallQuery(t).countyHint)
            /\ ReadMissed(t, CompositeKey(t), "read")
         \/ /\ pc[t] = "check_cache_bare"
            /\ ReadMissed(t, TrimmedName(t), "read_bare")
    /\ (pc'[t] = "check_cache_bare" /\ pc[t] # "check_cache_bare") =>
         (pc[t] = "check_cache" /\ ReadMissed(t, CompositeKey(t), "read"))
    /\ (pc'[t] = "check_cache" /\ pc[t] # "check_cache") =>
         /\ pc[t] \in {"idle", "done"}
         /\ args'[t].wdfw_name \in ValidNames
         /\ ~(files.override.state = "ok" /\
              \E i \in DOMAIN files.override.json :
                 files.override.json[i][1] = strip(args'[t].wdfw_name.s))

\* C20: a call writes the cache at most once, and only after the override lookup missed,
\* every cache read of the call missed and the matcher returned a result; the write goes to
\* the composite key. Override hits, cache hits, the null result and InvalidInput leave the
\* cache unchanged, and no entry is ever deleted.
CacheWrittenOnlyByMatch == [][CacheWriteStep /\ WritePathStep]_vars

\* a call with a county hint has matched and its item is in the table under 'name|county',
\* next to the untouched item of an earlier deployment
CacheWriteWitness ==
  \E t \in Threads :
    /\ pc[t] = "done" /\ ret[t].kind = "return"
    /\ ret[t].value.source = "algorithm"
    /\ io_failed[t] = {}
    /\ Truthy(CallQuery(t).countyHint)
    /\ CompositeKey(t) \in DOMAIN dynamodb
    /\ CompositeKey(t) # TrimmedName(t)
    /\ TrimmedName(t) \notin DOMAIN dynamodb
    /\ dynamodb[CompositeKey(t)].official_name.S = ret[t].value.officialName.s

\* thread t's call takes a step out of the cache read it stands at
LeavesRead(t, at) == pc[t] = at /\ pc'[t] # at
\* the step ends the call with the cache's item and without a call of the matcher
ReturnsCached(t, key) ==
  /\ pc'[t] = "done"
  /\ ret'[t].kind = "return"
  /\ ret'[t].value.source = "cache"
  /\ "official_name" \in DOMAIN dynamodb[key] =>
       ret'[t].value.officialName = Str(dynamodb[key].official_name.S)
  /\ UNCHANGED <<_records, _loaded, loads, dynamodb>>
\* the reads of one call: the composite key, then the bare name if that missed with a hint
CacheLookupStep ==
  \A t \in Threads :
    /\ (pc'[t] = "check_cache" /\ pc[t] # "check_cache") => pc[t] \in {"idle", "done"}
    /\ LeavesRead(t, "check_cache") =>
         IF ~ReadMissed(t, CompositeKey(t), "read") THEN ReturnsCached(t, CompositeKey(t))
         ELSE IF Truthy(CallQuery(t).countyHint) THEN pc'[t] = "check_cache_bare"
         ELSE pc'[t] = "find"
    /\ (pc'[t] = "check_cache_bare" /\ pc[t] # "check_cache_bare") => pc[t] = "check_cache"
    /\ LeavesRead(t, "check_cache_bare") =>
         IF ~ReadMissed(t, TrimmedName(t), "read_bare") THEN ReturnsCached(t, TrimmedName(t))
         ELSE pc'[t] = "find"
    /\ (pc'[t] = "find" /\ pc[t] # "find") => pc[t] \in {"check_cache", "check_cache_bare"}

\* C21: match_lake_name reads the composite key first; it reads the bare trimmed name only
\* when that read missed and the query has a county hint; the first hit is returned with
\* source = cache and the matcher is not called; with no county hint exactly one key is read.
CacheLookupOrder == [][CacheLookupStep]_vars

\* a call with a county hint missed at 'name|county' and was answered from the bare name
BareKeyHitWitness ==
  \E t \in Threads :
    /\ pc[t] = "done" /\ ret[t].kind = "return"
    /\ ret[t].value.source = "cache"
    /\ io_failed[t] = {}
    /\ Truthy(CallQuery(t).countyHint)
    /\ CompositeKey(t) \notin DOMAIN dynamodb
    /\ TrimmedName(t) \in DOMAIN dynamodb
    /\ ~HasOverride(TrimmedName(t))

\* the positions of the records the token strategy scores: those of the hinted county when
\* there is one, every record otherwise
ScoredRecordsOf(records, county_hint) ==
  IF /\ Truthy(county_hint)
     /\ \E i \in DOMAIN records : CountyContains(records[i], county_hint)
  THEN {i \in DOMAIN records : CountyContains(records[i], county_hint)}
  ELSE DOMAIN records
ScoredRecords == ScoredRecordsOf(records_of(fn_input), query_of(fn_input).countyHint)
\* the total scores of their names, official and alternative
TotalScoresOf(records, query) ==
  UNION {{token_total(records[i], query.tokens, query.normalized, query.countyHint,
                      token_sets_of(records[i])[k]) :
            k \in 1..(1 + Len(records[i].alternative_names))} :
         i \in ScoredRecordsOf(records, query.countyHint)}
TotalScores == TotalScoresOf(records_of(fn_input), query_of(fn_input))
\* the best of them reaches the threshold
ReachesThreshold == \E score \in TotalScores : score >= MIN_TOKEN_SCORE
\* max(1, 20 - Levenshtein(query normalized, record normalized)) of a record
FuzzyScoreOf(record, query_string) ==
  Max(1, 20 - _levenshtein(query_string, record.normalized.normalized))
\* the result is a fuzzy one: a record of the full gazetteer with the highest fuzzy score
IsFuzzyOver(records, query_string, result) ==
  /\ result # None
  /\ result.strategy = "fuzzy"
  /\ result.matched_score.type = "int"
  /\ \E i \in DOMAIN records :
       /\ Str(records[i].official_name) = result.officialName
       /\ records[i].latitude = result.lat /\ records[i].longitude = result.lng
       /\ result.matched_score = PyInt(FuzzyScoreOf(records[i], query_string))
  /\ \A j \in DOMAIN records : FuzzyScoreOf(records[j], query_string) <= int_value(result.matched_score)
IsFuzzyOverAll(result) ==
  IsFuzzyOver(records_of(fn_input), query_of(fn_input).normalized, result)
\* the result is a token one, with the best total score
HasBestOf(scores, result) ==
  /\ result # None
  /\ result.strategy = "token"
  /\ int_value(result.matched_score) \in scores
  /\ \A score \in scores : score <= int_value(result.matched_score)
IsTokenResult(result) == HasBestOf(TotalScores, result)

\* C22, as stated: find_matching_lake returns strategy = token exactly when the best total
\* score over the candidates is at least MIN_TOKEN_SCORE; otherwise it returns strategy =
\* fuzzy, computed over the full record set, with matched_score = max(1, 20 - distance).
AcceptanceThreshold ==
  MatcherCalled =>
    IF ReachesThreshold THEN IsTokenResult(fn_output[1].value)
    ELSE IsFuzzyOverAll(fn_output[1].value)

\* C22, amended: the same over a gazetteer with at least one record; over the empty
\* gazetteer there is no score and find_matching_lake returns None.
AcceptanceThresholdOfRecords ==
  MatcherCalled =>
    IF records_of(fn_input) = <<>> THEN fn_output[1].value = None
    ELSE IF ReachesThreshold THEN IsTokenResult(fn_output[1].value)
    ELSE IsFuzzyOverAll(fn_output[1].value)

\* no name of the hinted county reaches the threshold and the fuzzy result is a record
\* outside the county
FuzzyOutsideCountyWitness ==
  /\ NarrowingApplies
  /\ ~ReachesThreshold
  /\ fn_output[1].value.strategy = "fuzzy"
  /\ \A i \in ChosenRecords(fn_output[1].value) : i \notin ScoredRecords
  /\ query_of(fn_input).tokens # <<>>

\* a in b of Python, for strings
IsSubstring(a, b) == \E at \in 0..(Len(b) - Len(a)) : SubSeq(b, at + 1, at + Len(a)) = a
\* E: the positions of the candidate whose token is a query token
ExactCredits(Q, C) == {p \in DOMAIN C : \E q \in DOMAIN Q : Q[q] = C[p]}
\* P: the other positions whose token, of three letters or more, holds or is held by a
\* different query token of three letters or more
PartialCredits(Q, C) ==
  {p \in DOMAIN C \ ExactCredits(Q, C) :
     /\ Len(C[p]) >= 3
     /\ \E q \in DOMAIN Q : /\ Len(Q[q]) >= 3
                            /\ Q[q] # C[p]
                            /\ (IsSubstring(C[p], Q[q]) \/ IsSubstring(Q[q], C[p]))}
\* L: the edit distance between the query string and the candidate's tokens joined, at most 10
EditPenalty(query_string, C) ==
  IF _levenshtein(query_string, join(<<" ">>, C)) < 10
  THEN _levenshtein(query_string, join(<<" ">>, C)) ELSE 10
\* the call of _compute_token_score, once made
ScoreComputed == fn_output # <<>> /\ fn_output[1].fn = "_compute_token_score"

\* C23: for non-empty query tokens Q and candidate tokens C, _compute_token_score returns
\* 3*E + P - L: E positions of C with a token of Q, P further positions with a token held by
\* or holding a query token (both of length 3 or more), L the edit distance capped at 10.
TokenScoreFormula ==
  (ScoreComputed /\ fn_input.query_tokens # <<>> /\ fn_input.candidate_tokens # <<>>) =>
    /\ fn_output[1].value.score =
         3 * Cardinality(ExactCredits(fn_input.query_tokens, fn_input.candidate_tokens))
         + Cardinality(PartialCredits(fn_input.query_tokens, fn_input.candidate_tokens))
         - EditPenalty(fn_input.query_string, fn_input.candidate_tokens)
    /\ fn_output[1].value.exact =
         Cardinality(ExactCredits(fn_input.query_tokens, fn_input.candidate_tokens))
    /\ fn_output[1].value.partial =
         Cardinality(PartialCredits(fn_input.query_tokens, fn_input.candidate_tokens))

\* 'los' against 'los lost lakes': one exact credit, one partial credit, the penalty capped
TokenScoreWitness ==
  /\ ScoreComputed
  /\ fn_input.query_tokens = << <<"l","o","s">> >>
  /\ fn_input.candidate_tokens = << <<"l","o","s">>, <<"l","o","s","t">>, <<"l","a","k","e","s">> >>
  /\ fn_output[1].value = [score |-> 3 + 1 - 10, exact |-> 1, partial |-> 1]
  /\ _levenshtein(fn_input.query_string, join(<<" ">>, fn_input.candidate_tokens)) = 11

\* the highest of a set of scores, the lowest of a set of positions
Highest(scores) == CHOOSE score \in scores : \A other \in scores : other <= score
Lowest(positions) == CHOOSE i \in positions : \A j \in positions : i <= j
\* the scored records one of whose names has the highest total score
TokenWinners(records, query, highest) ==
  {i \in ScoredRecordsOf(records, query.countyHint) :
     \E k \in 1..(1 + Len(records[i].alternative_names)) :
       token_total(records[i], query.tokens, query.normalized, query.countyHint,
                   token_sets_of(records[i])[k]) = highest}
\* the names of a record with the highest total score
WinningNames(record, query, highest) ==
  {k \in 1..(1 + Len(record.alternative_names)) :
     token_total(record, query.tokens, query.normalized, query.countyHint,
                 token_sets_of(record)[k]) = highest}
\* the records of the gazetteer with the highest fuzzy score
FuzzyWinners(records, query_string) ==
  {i \in DOMAIN records :
     \A j \in DOMAIN records :
       FuzzyScoreOf(records[j], query_string) <= FuzzyScoreOf(records[i], query_string)}
\* the result names the record
IsResultOf(result, record) ==
  /\ result.officialName = Str(record.official_name)
  /\ result.lat = record.latitude
  /\ result.lng = record.longitude
\* the first winner of the strategy the result has
FirstWinner(records, query, output) ==
  IF output.value.strategy = "token"
  THEN /\ IsResultOf(output.value,
                     records[Lowest(TokenWinners(records, query,
                                                 Highest(TotalScoresOf(records, query))))])
       /\ output.best_match[1].tokens =
            token_sets_of(output.best_match[1].record)
              [Lowest(WinningNames(output.best_match[1].record, query,
                                   Highest(TotalScoresOf(records, query))))]
  ELSE IsResultOf(output.value, records[Lowest(FuzzyWinners(records, query.normalized))])

\* C24: among the (record, name) pairs with the highest total token score the result is the
\* record first in gazetteer order, by its official name before its alternatives; among the
\* records with the highest fuzzy score the fuzzy result is the first in gazetteer order.
TieBreaking ==
  (MatcherCalled /\ fn_output[1].value # None) =>
    FirstWinner(records_of(fn_input), query_of(fn_input), fn_output[1])

\* two records with different coordinates have the highest total score: the first is returned
TieBreakingWitness ==
  /\ MatcherCalled
  /\ fn_output[1].value # None
  /\ fn_output[1].value.strategy = "token"
  /\ Cardinality(TokenWinners(records_of(fn_input), query_of(fn_input),
                              int_value(fn_output[1].value.matched_score))) = 2
  /\ IsResultOf(fn_output[1].value, records_of(fn_input)[1])
  /\ ~IsResultOf(fn_output[1].value, records_of(fn_input)[2])

\* an alignment of a with b: each position of a is deleted (0) or put on a position of b,
\* positions of b in rising order
Alignments(a, b) ==
  {on \in [DOMAIN a -> 0..Len(b)] :
     \A i, j \in DOMAIN a : (i < j /\ on[i] # 0 /\ on[j] # 0) => on[i] < on[j]}
\* its cost: a deletion per position of a left out, an insertion per position of b not
\* reached, a substitution per position put on a different character
AlignmentCost(a, b, on) ==
  Cardinality({i \in DOMAIN a : on[i] = 0})
  + (Len(b) - Cardinality({i \in DOMAIN a : on[i] # 0}))
  + Cardinality({i \in DOMAIN a : on[i] # 0 /\ a[i] # b[on[i]]})
\* the unit-cost edit distance: the cost of a cheapest alignment
EditDistance(a, b) ==
  CHOOSE d \in 0..(Len(a) + Len(b)) :
    /\ \E on \in Alignments(a, b) : AlignmentCost(a, b, on) = d
    /\ \A on \in Alignments(a, b) : AlignmentCost(a, b, on) >= d
\* the call of _levenshtein, once made
LevenshteinComputed == fn_output # <<>> /\ fn_output[1].fn = "_levenshtein"

\* C25: _levenshtein(a, b) is the unit-cost edit distance (insert, delete, substitute) of a
\* and b: 0 for equal strings, the length of the other when one is empty, and the same with
\* its arguments exchanged.
LevenshteinIsEditDistance ==
  LevenshteinComputed =>
    /\ fn_output[1].value = EditDistance(fn_input.a, fn_input.b)
    /\ fn_input.a = fn_input.b => fn_output[1].value = 0
    /\ fn_input.a = <<>> => fn_output[1].value = Len(fn_input.b)
    /\ fn_input.b = <<>> => fn_output[1].value = Len(fn_input.a)
    /\ fn_output[1].value = _levenshtein(fn_input.b, fn_input.a)

\* 'aba' to 'bab' takes an insertion in front and a deletion at the end
LevenshteinWitness ==
  /\ LevenshteinComputed
  /\ fn_input.a = <<"a","b","a">>
  /\ fn_input.b = <<"b","a","b">>
  /\ fn_output[1].value = 2

\* the threads that hold the override mapping their lookup uses
HoldsOverrides(t) == pc[t] \in {"lru_store", "get", "done"} /\ "overrides" \in DOMAIN locals[t]

\* C26: when several threads make their first override lookup at once, the override file is
\* read once and all of them use the same mapping; a missing file gives the empty mapping
\* and no error.
OverridesLoadedOnce ==
  /\ files.override.state = "ok" => loads.reads <= 1
  /\ \A t, u \in Loaders :
       (HoldsOverrides(t) /\ HoldsOverrides(u)) => locals[t].overrides = locals[u].overrides
  /\ files.override.state = "missing" =>
       \A t \in Loaders : pc[t] = "done" => (ret[t].kind = "return" /\ locals[t].overrides = <<>>)

\* the two items hold the same official name, coordinates and score
SameCachedValue(item, other) ==
  /\ item.official_name = other.official_name
  /\ item.lat = other.lat
  /\ item.lng = other.lng
  /\ item.matched_score = other.matched_score

\* C27: over a fixed gazetteer the value written at a cache key is determined by the key:
\* a write at a key that holds an item of an earlier call stores the same officialName, lat,
\* lng and matched_score.
KeyDeterminesValue ==
  [][\A key \in DOMAIN dynamodb \cap DOMAIN dynamodb' :
       SameCachedValue(dynamodb[key], dynamodb'[key])]_vars

\* what the call returns on a cold cache when no override answers it
ColdResult(t) == IF LiveMatch(t) = None THEN null_result ELSE LiveMatch(t)
\* the same for the call's name without a county
ColdResultWithoutCounty(t) ==
  find_matching_lake_of(load_records_of(files.gnis.json, files.hydro.json),
                        normalize_name_of(TrimmedName(t), None))
\* the call returns in this step, from a cache read, from the matcher or after its write
ReturnsPastOverride(t) ==
  /\ pc[t] \in {"check_cache", "check_cache_bare", "find", "write_cache"}
  /\ pc'[t] = "done"
  /\ ret'[t].kind = "return"

\* C28, as stated: whatever calls were made before, a call returns the officialName, lat,
\* lng and matched_score it returns on a cold cache; a cache hit changes source only.
HistoryIndependence ==
  [][\A t \in Threads :
       ReturnsPastOverride(t) => SameAnswer(ret'[t].value, ColdResult(t))]_vars

\* C28, amended: the same for a call answered at its composite key or by the matcher; a call
\* with a county hint that misses at its composite key and is answered from the bare name
\* returns the values of the call without a county.
HistoryIndependenceButBareName ==
  [][\A t \in Threads :
       ReturnsPastOverride(t) =>
         IF pc[t] = "check_cache_bare"
         THEN SameAnswer(ret'[t].value, ColdResultWithoutCounty(t))
         ELSE SameAnswer(ret'[t].value, ColdResult(t))]_vars

\* a call with a county is answered from the item an earlier call wrote at 'name|county'
CompositeKeyHitWitness ==
  \E t \in Threads :
    /\ pc[t] = "done" /\ ret[t].kind = "return"
    /\ ret[t].value.source = "cache"
    /\ args[t] = [wdfw_name |-> Str(<<"L","o","s","t"," ","L","k">>), county |-> Str(<<"K","i","n","g">>)]
    /\ PyEq(ret[t].value.lat, LostLakeKing.latitude)
    /\ PyEq(ret[t].value.matched_score, PyInt(8))
    /\ ret[t].value.matched_score.type = "float"

\* the boosts of the records the token strategy scores
BoostsOf(records, query) ==
  {_county_boost(query.countyHint, Str(records[i].county_name)) :
     i \in ScoredRecordsOf(records, query.countyHint)}
\* the scores of their names before the boost
PlainScoresOf(records, query) ==
  UNION {{_compute_token_score(query.tokens, query.normalized, token_sets_of(records[i])[k]).score :
            k \in 1..(1 + Len(records[i].alternative_names))} :
         i \in ScoredRecordsOf(records, query.countyHint)}
\* the scored records one of whose names has the given score before the boost
PlainWinners(records, query, highest) ==
  {i \in ScoredRecordsOf(records, query.countyHint) :
     \E k \in 1..(1 + Len(records[i].alternative_names)) :
       _compute_token_score(query.tokens, query.normalized, token_sets_of(records[i])[k]).score
         = highest}
\* one boost for all: 2 when the hint narrowed the records, 0 otherwise; the token result is
\* the first record with the best score before the boost
UniformBoost(records, query, result) ==
  /\ BoostsOf(records, query) =
       IF /\ Truthy(query.countyHint)
          /\ \E i \in DOMAIN records : CountyContains(records[i], query.countyHint)
       THEN {2} ELSE {0}
  /\ result.strategy = "token" =>
       IsResultOf(result, records[Lowest(PlainWinners(records, query,
                                                      Highest(PlainScoresOf(records, query))))])

\* C29: within one find_matching_lake call the county boost is the same for every candidate
\* scored, 2 when narrowing by the hint left records and 0 otherwise, so the record with the
\* best token score is the one with the best score before the boost.
CountyBoostIsUniform ==
  (MatcherCalled /\ fn_output[1].value # None) =>
    UniformBoost(records_of(fn_input), query_of(fn_input), fn_output[1].value)

\* two records of the hinted county are scored and the best reaches the threshold by the boost
CountyBoostWitness ==
  /\ NarrowingApplies
  /\ Cardinality(ScoredRecords) = 2
  /\ fn_output[1].value.strategy = "token"
  /\ int_value(fn_output[1].value.matched_score) - 2 < MIN_TOKEN_SCORE

\* the edit distance between the query's normalized string and the record's
DistanceOf(record, query_string) == _levenshtein(query_string, record.normalized.normalized)
\* no record is nearer to the query than one the result names
IsNearest(records, query_string, result) ==
  \E i \in DOMAIN records :
    /\ IsResultOf(result, records[i])
    /\ \A j \in DOMAIN records :
         DistanceOf(records[i], query_string) <= DistanceOf(records[j], query_string)
\* some record is within 18 edits of the query, so that its fuzzy score is above 1
WithinReach(records, query_string) ==
  \E i \in DOMAIN records : DistanceOf(records[i], query_string) < 19
\* the fuzzy strategy answered
FuzzyAnswered ==
  /\ MatcherCalled
  /\ fn_output[1].value # None
  /\ fn_output[1].value.strategy = "fuzzy"

\* C30, as stated: the record of a fuzzy answer has the least edit distance to the query
\* among all records of the gazetteer.
FuzzyIsNearest ==
  FuzzyAnswered =>
    IsNearest(records_of(fn_input), query_of(fn_input).normalized, fn_output[1].value)

\* C30, amended: the same when some record is within 18 edits of the query; when every
\* record is 19 edits away or more, all fuzzy scores are 1 and the answer is the first
\* record of the gazetteer, whatever its distance.
FuzzyIsNearestWithinReach ==
  FuzzyAnswered =>
    IF WithinReach(records_of(fn_input), query_of(fn_input).normalized)
    THEN IsNearest(records_of(fn_input), query_of(fn_input).normalized, fn_output[1].value)
    ELSE /\ IsResultOf(fn_output[1].value, records_of(fn_input)[1])
         /\ fn_output[1].value.matched_score = PyInt(1)

\* the nearest record is the second of the gazetteer and the fuzzy answer names it
FuzzyNearestWitness ==
  /\ FuzzyAnswered
  /\ Len(records_of(fn_input)) = 2
  /\ DistanceOf(records_of(fn_input)[2], query_of(fn_input).normalized)
       < DistanceOf(records_of(fn_input)[1], query_of(fn_input).normalized)
  /\ IsResultOf(fn_output[1].value, records_of(fn_input)[2])
  /\ ~IsResultOf(fn_output[1].value, records_of(fn_input)[1])
=============================================================================
